---------------------------- MODULE Spec2Model ----------------------------
(***************************************************************************)
(* Model of the auction-draft assistant (eyalerez1/nba-draft).             *)
(*                                                                         *)
(* The state is the state of the useDraftState hook: the DraftState        *)
(* snapshot, the RosterSlot objects every MyRoster snapshot references,    *)
(* the current nomination and the bidding recommendation derived from      *)
(* them.  The operations are the handlers the hook exports.                *)
(*                                                                         *)
(* Numbers.  Budgets, prices, projected values and tiers are integers.     *)
(* A CategoryImpact field is a real number in the source; the catalog of   *)
(* this model uses multiples of 0.25 and stores the number of quarters,    *)
(* so that every sum of impacts is exact in IEEE-754 doubles as well, and  *)
(* "impact > 0.5" reads 10 * q > 4 * 5.  Ratios of integers are compared   *)
(* by cross-multiplication; where the double the source computes differs   *)
(* from the exact product (0.7 * 90, 0.7 * 170, 0.7 * 180, and the sums    *)
(* 0.5 + 0.1 + 0.1 + 0.1 ...) the operator says so and returns what the    *)
(* double arithmetic returns.                                              *)
(***************************************************************************)
EXTENDS Integers, Sequences, FiniteSets, TLC

VARIABLES
    draftState,         \* the DraftState snapshot held by useState
    heap,               \* RosterSlot objects, by the reference MyRoster.slots holds
    currentNomination,  \* the nomination being bid on, or NoNomination
    biddingRec,         \* result of the recommendation effect, or NoRec
    preCall,            \* history: the last call, and what it found if it was an accepted draft
    compliant,          \* history: every operator pick so far was within a recommended maxBid
    sessionCalls,       \* history: number of calls of this session, by kind
    evaluated,          \* history: the last function evaluated, its input and result
    render              \* the DraftState object the hook holds, and what its effects last saw

\* the state of the hook and its history
hookVars == <<draftState, heap, currentNomination, biddingRec, preCall, compliant, sessionCalls>>

vars == <<hookVars, evaluated, render>>

-----------------------------------------------------------------------------
(* Bounds of the model                                                     *)

\* picks a session may add after its opening
MaxPicks == 1

\* picks a session may take back
MaxUndos == 1

-----------------------------------------------------------------------------
(* Program constants                                                       *)

TotalBudget == 200
TotalTeams == 10
MyTeamName == "Eyal"

teamNames == <<"Eyal", "Ben", "Shtemler", "Shtark", "Topaz", "Yoav", "Hertz", "Lior", "Shachar", "Shay">>

Strategies == {"stars_scrubs", "balanced", "punt_ft", "punt_fg", "punt_to", "punt_assists"}

Cats == <<"points", "rebounds", "assists", "steals", "blocks", "fg_pct", "ft_pct", "threePointers", "turnovers">>

-----------------------------------------------------------------------------
(* Generic helpers                                                         *)

Min2(a, b) == IF a <= b THEN a ELSE b
Max2(a, b) == IF a >= b THEN a ELSE b

Range(s) == {s[i] : i \in 1..Len(s)}

\* const v = value; Body(v): the value is computed once and then used by Body
With(value, Body(_)) == CHOOSE result \in {Body(v) : v \in {value}} : TRUE

\* the sequence s with every element computed: what Array.prototype.map returns
Array(s) == SelectSeq(s, LAMBDA element : TRUE)

RECURSIVE SumFirst(_, _)
SumFirst(s, n) == IF n = 0 THEN 0 ELSE SumFirst(s, n - 1) + s[n]

SumSeq(s) == With(Array(s), LAMBDA v : SumFirst(v, Len(v)))

\* number of elements of s satisfying Keep: s.filter(Keep).length
CountSeq(s, Keep(_)) == With(s, LAMBDA v : Cardinality({i \in 1..Len(v) : Keep(v[i])}))

\* Array.prototype.find as an index: the first index satisfying Hit, 0 when none
FindIndex(s, Hit(_)) ==
    With(s, LAMBDA v :
    With({i \in 1..Len(v) : Hit(v[i])}, LAMBDA hits :
        IF hits = {} THEN 0 ELSE CHOOSE i \in hits : \A j \in hits : i <= j))

-----------------------------------------------------------------------------
(* The player catalog (data/players, an input of the program)              *)

Impact(p, r, a, s, b, fg, ft, tp, to) ==
    [points |-> p, rebounds |-> r, assists |-> a, steals |-> s, blocks |-> b,
     fg_pct |-> fg, ft_pct |-> ft, threePointers |-> tp, turnovers |-> to]

FillerPositions ==
    <<  <<"PG">>, <<"SG">>, <<"SF">>, <<"PF">>, <<"C">>, <<"PG", "SG">>, <<"SF", "PF">>  >>

\* Player records.  Ids 1..4 are hand-written and ids 5..160 are role players.  Ids 161
\* and 162 are tier-1 players projected at $60, with one and with two positions; ids
\* 163..183 are tier-1 players projected at $70.
PlayerData(i) ==
    CASE i = 1 -> [id |-> 1, positions |-> <<"PG", "SG">>, projectedValue |-> 60, tier |-> 1,
                   categoryStrengths |-> Impact(8, 1, 6, 3, 0, 1, 3, 5, -3)]
      [] i = 2 -> [id |-> 2, positions |-> <<"C">>, projectedValue |-> 24, tier |-> 3,
                   categoryStrengths |-> Impact(2, 7, -2, 0, 6, 4, -5, -4, 2)]
      [] i = 3 -> [id |-> 3, positions |-> <<"SF">>, projectedValue |-> 3, tier |-> 5,
                   categoryStrengths |-> Impact(-3, -1, -3, 0, 0, -1, 0, -2, 0)]
      [] i = 4 -> [id |-> 4, positions |-> <<"PF", "C">>, projectedValue |-> 38, tier |-> 2,
                   categoryStrengths |-> Impact(5, 6, 1, 1, 3, 3, -1, 0, -1)]
      [] i = 161 -> [id |-> 161, positions |-> <<"C">>, projectedValue |-> 60, tier |-> 1,
                     categoryStrengths |-> Impact(6, 8, 0, 0, 6, 4, -3, 0, -1)]
      [] i = 162 -> [id |-> 162, positions |-> <<"PF", "C">>, projectedValue |-> 60, tier |-> 1,
                     categoryStrengths |-> Impact(6, 8, 0, 0, 6, 4, -3, 0, -1)]
      [] i \in 163..183 -> [id |-> i, positions |-> <<"PF", "C">>, projectedValue |-> 70,
                            tier |-> 1,
                            categoryStrengths |-> Impact(8, 8, 2, 2, 4, 2, 0, 0, -2)]
      [] OTHER -> [id |-> i, positions |-> FillerPositions[(i % 7) + 1],
                   projectedValue |-> 8 + 5 * (i % 5), tier |-> 5 - ((i % 5) \div 2),
                   categoryStrengths |-> Impact(1, 0, -2, 0, 3, 0, -3, 0, i % 3)]

\* the players of every catalog, and the record of a player id
Catalog == [i \in 1..183 |-> PlayerData(i)]

Player(i) == Catalog[i]

samplePlayers(n) == [i \in 1..n |-> i]

-----------------------------------------------------------------------------
(* Records                                                                 *)

\* slot.player === undefined
NoPlayer == [id |-> 0, draftedBy |-> "", actualCost |-> 0, draftOrder |-> 0]

NoNomination == [player |-> 0, currentBid |-> 0, nominatedBy |-> ""]

\* the reference every MyRoster.slots of a session holds
SlotsRef == "initialRoster.slots"

SlotPositions ==
    <<"PG", "SG", "G", "SF", "PF", "F", "C", "C", "UTIL", "UTIL", "BENCH", "BENCH", "BENCH">>

initializeRoster == [slots |-> SlotsRef, totalSpent |-> 0, remainingBudget |-> 200]

initialSlots == [i \in 1..Len(SlotPositions) |-> [position |-> SlotPositions[i], player |-> NoPlayer]]

ZeroImpact == Impact(0, 0, 0, 0, 0, 0, 0, 0, 0)

initializeAllTeams(names, totalBudget) ==
    [i \in 1..Len(names) |->
        [teamName |-> names[i],
         remainingBudget |-> totalBudget,
         totalSpent |-> 0,
         playersOwned |-> <<>>,
         slotsRemaining |-> 13,
         positionNeeds |-> [PG |-> 1, SG |-> 1, SF |-> 1, PF |-> 1, C |-> 2,
                            G |-> 1, F |-> 1, UTIL |-> 2, BENCH |-> 3, any |-> 8],
         categoryStrengths |-> ZeroImpact,
         isMyTeam |-> (names[i] = "Eyal")]]

\* the slot array a roster snapshot sees through its reference
Slots(h, roster) == h[roster.slots]


AddImpact(a, b) ==
    [points |-> a.points + b.points, rebounds |-> a.rebounds + b.rebounds,
     assists |-> a.assists + b.assists, steals |-> a.steals + b.steals,
     blocks |-> a.blocks + b.blocks, fg_pct |-> a.fg_pct + b.fg_pct,
     ft_pct |-> a.ft_pct + b.ft_pct, threePointers |-> a.threePointers + b.threePointers,
     turnovers |-> a.turnovers + b.turnovers]

SubImpact(a, b) ==
    [points |-> a.points - b.points, rebounds |-> a.rebounds - b.rebounds,
     assists |-> a.assists - b.assists, steals |-> a.steals - b.steals,
     blocks |-> a.blocks - b.blocks, fg_pct |-> a.fg_pct - b.fg_pct,
     ft_pct |-> a.ft_pct - b.ft_pct, threePointers |-> a.threePointers - b.threePointers,
     turnovers |-> a.turnovers - b.turnovers]

-----------------------------------------------------------------------------
(* Team tracking (utils/team/teamUtils)                                    *)

\* variant of updateTeamAfterDraft that forgets to count the slot the pick takes
updateTeamAfterDraftKeepsSlots(team, draftedPlayer) ==
    [team EXCEPT
        !.remainingBudget = team.remainingBudget - draftedPlayer.actualCost,
        !.totalSpent = team.totalSpent + draftedPlayer.actualCost,
        !.playersOwned = Append(team.playersOwned, draftedPlayer),
        !.categoryStrengths =
            AddImpact(team.categoryStrengths, Player(draftedPlayer.id).categoryStrengths)]

updateTeamAfterDraft(team, draftedPlayer) ==
    [team EXCEPT
        !.remainingBudget = team.remainingBudget - draftedPlayer.actualCost,
        !.totalSpent = team.totalSpent + draftedPlayer.actualCost,
        !.playersOwned = Append(team.playersOwned, draftedPlayer),
        !.slotsRemaining = team.slotsRemaining - 1,
        !.categoryStrengths =
            AddImpact(team.categoryStrengths, Player(draftedPlayer.id).categoryStrengths)]

\* variant of undoTeamDraft that forgets to give the price back to the team
undoTeamDraftKeepsBudget(team, playerToRemove) ==
    [team EXCEPT
        !.playersOwned = SelectSeq(team.playersOwned, LAMBDA p : p.id # playerToRemove.id),
        !.slotsRemaining = team.slotsRemaining + 1,
        !.categoryStrengths =
            SubImpact(team.categoryStrengths, Player(playerToRemove.id).categoryStrengths)]

undoTeamDraft(team, playerToRemove) ==
    [team EXCEPT
        !.remainingBudget = team.remainingBudget + playerToRemove.actualCost,
        !.totalSpent = team.totalSpent - playerToRemove.actualCost,
        !.playersOwned = SelectSeq(team.playersOwned, LAMBDA p : p.id # playerToRemove.id),
        !.slotsRemaining = team.slotsRemaining + 1,
        !.categoryStrengths =
            SubImpact(team.categoryStrengths, Player(playerToRemove.id).categoryStrengths)]

-----------------------------------------------------------------------------
(* Roster slots                                                            *)

Includes(positions, pos) == \E k \in 1..Len(positions) : positions[k] = pos

\* the predicate of updatedRoster.slots.find(...) in handleDraftPlayer
SlotAccepts(slot, player) ==
    /\ slot.player.id = 0
    /\ \/ slot.position = "BENCH"
       \/ slot.position = "UTIL"
       \/ Includes(player.positions, slot.position)
       \/ slot.position = "G" /\ (Includes(player.positions, "PG") \/ Includes(player.positions, "SG"))
       \/ slot.position = "F" /\ (Includes(player.positions, "SF") \/ Includes(player.positions, "PF"))

\* [...prev.playersRemaining, originalPlayer].sort((a, b) => b.projectedValue - a.projectedValue):
\* a stable sort by descending projected value, value by value from the highest
RECURSIVE ByValueDesc(_, _)
ByValueDesc(ids, values) ==
    IF values = {} THEN <<>>
    ELSE With(CHOOSE x \in values : \A y \in values : x >= y, LAMBDA v :
         With(values \ {v}, LAMBDA rest :
             SelectSeq(ids, LAMBDA id : Player(id).projectedValue = v)
             \o ByValueDesc(ids, rest)))

SortByValueDesc(ids) ==
    With(ids, LAMBDA list :
    With({Player(list[k]).projectedValue : k \in 1..Len(list)}, LAMBDA values :
        ByValueDesc(list, values)))

-----------------------------------------------------------------------------
(* Derived fields of the snapshot                                          *)

\* q quarters compared with t tenths: q / 4 > t / 10, q / 4 < t / 10
GtTenths(q, t) == 10 * q > 4 * t
LtTenths(q, t) == 10 * q < 4 * t

getDraftPhase(playersDrafted, totalPlayers) ==
    IF 10 * Len(playersDrafted) < 3 * totalPlayers THEN "early"
    ELSE IF 10 * Len(playersDrafted) < 7 * totalPlayers THEN "middle"
    ELSE "late"

Strength(q, strongAbove, weakBelow) ==
    IF GtTenths(q, strongAbove) THEN "strong"
    ELSE IF LtTenths(q, weakBelow) THEN "weak"
    ELSE "neutral"

\* slots is the slot array of the roster (roster.slots dereferenced)
generateRosterAnalysis(slots, strategy) ==
    With(SelectSeq(slots, LAMBDA slot : slot.player.id # 0), LAMBDA filledSlots :
    With([cat \in Range(Cats) |->
            SumSeq([k \in 1..Len(filledSlots) |->
                       Player(filledSlots[k].player.id).categoryStrengths[cat]])],
         LAMBDA totals :
    LET byTotals ==
            [points |-> Strength(totals.points, 20, -10),
             rebounds |-> Strength(totals.rebounds, 20, -10),
             assists |-> Strength(totals.assists, 20, -10),
             steals |-> Strength(totals.steals, 15, -10),
             blocks |-> Strength(totals.blocks, 15, -10),
             fg_pct |-> Strength(totals.fg_pct, 15, -15),
             ft_pct |-> Strength(totals.ft_pct, 15, -15),
             threePointers |-> Strength(totals.threePointers, 20, -10),
             turnovers |-> Strength(totals.turnovers, 15, -15)]
        categoryNeeds ==
            IF strategy = "punt_ft" THEN [byTotals EXCEPT !.ft_pct = "weak"]
            ELSE IF strategy = "punt_fg" THEN [byTotals EXCEPT !.fg_pct = "weak"]
            ELSE IF strategy = "punt_to" THEN [byTotals EXCEPT !.turnovers = "weak"]
            ELSE IF strategy = "punt_assists" THEN [byTotals EXCEPT !.assists = "weak"]
            ELSE byTotals
    IN  [currentCategoryTotals |-> totals,
         categoryNeeds |-> categoryNeeds,
         recommendedStrategy |-> strategy]))

\* The "update draft phase and analysis" effect, run to its fixed point: the derived
\* fields of the snapshot recomputed from its core fields.
WithDerived(ds, h) ==
    [ds EXCEPT
        !.draftPhase = getDraftPhase(ds.playersDrafted, ds.totalTeams * 13),
        !.rosterAnalysis = generateRosterAnalysis(Slots(h, ds.myRoster), ds.selectedStrategy)]

-----------------------------------------------------------------------------
(* The handlers of useDraftState, as functions of the hook's state         *)
(* w = [draftState, heap, currentNomination]                               *)

InPool(ds, playerId) == \E k \in 1..Len(ds.playersRemaining) : ds.playersRemaining[k] = playerId

\* variant of the lookup that searches the whole catalog instead of playersRemaining
findPlayerInCatalog(ds, playerId) == IF playerId \in DOMAIN Catalog THEN playerId ELSE 0

\* draftState.playersRemaining.find(p => p.id === playerId): the id found, 0 for undefined
findPlayer(ds, playerId) == IF InPool(ds, playerId) THEN playerId ELSE 0

\* updatedRoster.slots.find(...) of handleDraftPlayer, as an index into the slot array
FindAvailableSlot(slots, player) == FindIndex(slots, LAMBDA slot : SlotAccepts(slot, player))

\* variant of the slot write that fills every open slot the player is eligible for
PlacePlayerInEveryOpenSlot(slots, availableSlot, draftedPlayer) ==
    [i \in 1..Len(slots) |->
        IF SlotAccepts(slots[i], Player(draftedPlayer.id))
        THEN [slots[i] EXCEPT !.player = draftedPlayer]
        ELSE slots[i]]

\* availableSlot.player = draftedPlayer
PlacePlayer(slots, availableSlot, draftedPlayer) ==
    [slots EXCEPT ![availableSlot].player = draftedPlayer]

\* updatedRoster.totalSpent += finalBid; updatedRoster.remainingBudget -= finalBid
SpendOnRoster(roster, finalBid) ==
    [roster EXCEPT !.totalSpent = @ + finalBid, !.remainingBudget = @ - finalBid]

\* variant of the refund that gives the budget back but leaves totalSpent as it was
RefundToRosterBudgetOnly(roster, actualCost) ==
    [roster EXCEPT !.remainingBudget = @ + actualCost]

\* updatedRoster.totalSpent -= actualCost; updatedRoster.remainingBudget += actualCost
RefundToRoster(roster, actualCost) ==
    [roster EXCEPT !.totalSpent = @ - actualCost, !.remainingBudget = @ + actualCost]

\* variant of handleDraftPlayer without setCurrentNomination(null)
handleDraftPlayerKeepsNomination(w, playerId, finalBid, draftedBy) ==
    LET ds == w.draftState
    IN  IF findPlayer(ds, playerId) = 0 THEN w
        ELSE
        LET player == Player(playerId)
            draftedPlayer == [id |-> playerId, draftedBy |-> draftedBy, actualCost |-> finalBid,
                              draftOrder |-> Len(ds.playersDrafted) + 1]
            updatedTeams == Array([i \in 1..Len(ds.allTeams) |->
                                IF ds.allTeams[i].teamName = draftedBy
                                THEN updateTeamAfterDraft(ds.allTeams[i], draftedPlayer)
                                ELSE ds.allTeams[i]])
            remaining == SelectSeq(ds.playersRemaining, LAMBDA p : p # playerId)
            drafted == Append(ds.playersDrafted, draftedPlayer)
        IN  IF draftedBy = "Eyal"
            THEN
                \* updatedRoster = { ...draftState.myRoster } copies the reference to the
                \* slot array: the slot written below is the one every snapshot sees
                LET slots == Slots(w.heap, ds.myRoster)
                    availableSlot == FindAvailableSlot(slots, player)
                    updatedRoster ==
                        IF availableSlot # 0 THEN SpendOnRoster(ds.myRoster, finalBid)
                        ELSE ds.myRoster
                IN  [draftState |-> [ds EXCEPT !.playersRemaining = remaining,
                                               !.playersDrafted = drafted,
                                               !.myRoster = updatedRoster,
                                               !.allTeams = updatedTeams],
                     heap |-> IF availableSlot # 0
                              THEN [w.heap EXCEPT ![ds.myRoster.slots] =
                                        PlacePlayer(slots, availableSlot, draftedPlayer)]
                              ELSE w.heap,
                     currentNomination |-> w.currentNomination]
            ELSE
                [draftState |-> [ds EXCEPT !.playersRemaining = remaining,
                                           !.playersDrafted = drafted,
                                           !.allTeams = updatedTeams],
                 heap |-> w.heap,
                 currentNomination |-> w.currentNomination]

handleDraftPlayer(w, playerId, finalBid, draftedBy) ==
    LET ds == w.draftState
    IN  IF findPlayer(ds, playerId) = 0 THEN w
        ELSE
        LET player == Player(playerId)
            draftedPlayer == [id |-> playerId, draftedBy |-> draftedBy, actualCost |-> finalBid,
                              draftOrder |-> Len(ds.playersDrafted) + 1]
            updatedTeams == Array([i \in 1..Len(ds.allTeams) |->
                                IF ds.allTeams[i].teamName = draftedBy
                                THEN updateTeamAfterDraft(ds.allTeams[i], draftedPlayer)
                                ELSE ds.allTeams[i]])
            remaining == SelectSeq(ds.playersRemaining, LAMBDA p : p # playerId)
            drafted == Append(ds.playersDrafted, draftedPlayer)
        IN  IF draftedBy = "Eyal"
            THEN
                \* updatedRoster = { ...draftState.myRoster } copies the reference to the
                \* slot array: the slot written below is the one every snapshot sees
                LET slots == Slots(w.heap, ds.myRoster)
                    availableSlot == FindAvailableSlot(slots, player)
                    updatedRoster ==
                        IF availableSlot # 0 THEN SpendOnRoster(ds.myRoster, finalBid)
                        ELSE ds.myRoster
                IN  [draftState |-> [ds EXCEPT !.playersRemaining = remaining,
                                               !.playersDrafted = drafted,
                                               !.myRoster = updatedRoster,
                                               !.allTeams = updatedTeams],
                     heap |-> IF availableSlot # 0
                              THEN [w.heap EXCEPT ![ds.myRoster.slots] =
                                        PlacePlayer(slots, availableSlot, draftedPlayer)]
                              ELSE w.heap,
                     currentNomination |-> NoNomination]
            ELSE
                [draftState |-> [ds EXCEPT !.playersRemaining = remaining,
                                           !.playersDrafted = drafted,
                                           !.allTeams = updatedTeams],
                 heap |-> w.heap,
                 currentNomination |-> NoNomination]

handleUndoLastPick(w) ==
    LET ds == w.draftState
    IN  IF Len(ds.playersDrafted) = 0 THEN w
        ELSE
        LET lastDraftedPlayer == ds.playersDrafted[Len(ds.playersDrafted)]
            draftedBy == lastDraftedPlayer.draftedBy
            actualCost == lastDraftedPlayer.actualCost
            updatedTeams == Array([i \in 1..Len(ds.allTeams) |->
                                IF ds.allTeams[i].teamName = draftedBy
                                THEN undoTeamDraft(ds.allTeams[i], lastDraftedPlayer)
                                ELSE ds.allTeams[i]])
            remaining == SortByValueDesc(Append(ds.playersRemaining, lastDraftedPlayer.id))
            drafted == SubSeq(ds.playersDrafted, 1, Len(ds.playersDrafted) - 1)
        IN  IF draftedBy = "Eyal"
            THEN
                LET slots == Slots(w.heap, ds.myRoster)
                    playerSlot == FindIndex(slots, LAMBDA slot : slot.player.id = lastDraftedPlayer.id)
                    updatedRoster ==
                        IF playerSlot # 0 THEN RefundToRoster(ds.myRoster, actualCost)
                        ELSE ds.myRoster
                IN  [draftState |-> [ds EXCEPT !.playersRemaining = remaining,
                                               !.playersDrafted = drafted,
                                               !.myRoster = updatedRoster,
                                               !.allTeams = updatedTeams],
                     \* playerSlot.player = undefined: the slot object itself is written
                     heap |-> IF playerSlot # 0
                              THEN [w.heap EXCEPT ![ds.myRoster.slots][playerSlot].player = NoPlayer]
                              ELSE w.heap,
                     currentNomination |-> w.currentNomination]
            ELSE
                [draftState |-> [ds EXCEPT !.playersRemaining = remaining,
                                           !.playersDrafted = drafted,
                                           !.allTeams = updatedTeams],
                 heap |-> w.heap,
                 currentNomination |-> w.currentNomination]

handleNominatePlayer(w, playerId, startingBid, nominatedBy) ==
    IF findPlayer(w.draftState, playerId) = 0 THEN w
    ELSE [w EXCEPT !.currentNomination =
                [player |-> playerId, currentBid |-> startingBid, nominatedBy |-> nominatedBy]]

\* sets selectedStrategy and the rosterAnalysis it computed for the new strategy
handleStrategyChange(w, newStrategy) ==
    [w EXCEPT !.draftState.selectedStrategy = newStrategy,
              !.draftState.rosterAnalysis =
                  generateRosterAnalysis(Slots(w.heap, w.draftState.myRoster), newStrategy)]

\* the render that follows a handler: derived fields brought up to date
Rendered(w) == [w EXCEPT !.draftState = WithDerived(w.draftState, w.heap)]

-----------------------------------------------------------------------------
(* Roster needs (utils/draft/rosterUtils)                                  *)

RECURSIVE NeedsFrom(_, _, _)
NeedsFrom(slots, k, needs) ==
    IF k > Len(slots) THEN needs
    ELSE
    LET slot == slots[k]
        pos == slot.position
        next ==
            IF slot.player.id # 0 THEN needs
            ELSE IF pos = "PG" THEN [needs EXCEPT !.PG = @ + 1]
            ELSE IF pos = "SG" THEN [needs EXCEPT !.SG = @ + 1]
            ELSE IF pos = "G" THEN
                (IF needs.PG > 0 THEN [needs EXCEPT !.PG = @ + 1] ELSE [needs EXCEPT !.SG = @ + 1])
            ELSE IF pos = "SF" THEN [needs EXCEPT !.SF = @ + 1]
            ELSE IF pos = "PF" THEN [needs EXCEPT !.PF = @ + 1]
            ELSE IF pos = "F" THEN
                (IF needs.SF > 0 THEN [needs EXCEPT !.SF = @ + 1] ELSE [needs EXCEPT !.PF = @ + 1])
            ELSE IF pos = "C" THEN [needs EXCEPT !.C = @ + 1]
            ELSE [needs EXCEPT !.any = @ + 1]
    IN  With(next, LAMBDA counted : NeedsFrom(slots, k + 1, counted))

getRosterNeeds(slots) ==
    NeedsFrom(slots, 1, [PG |-> 0, SG |-> 0, SF |-> 0, PF |-> 0, C |-> 0, any |-> 0])

EmptySlots(slots) == CountSeq(slots, LAMBDA slot : slot.player.id = 0)
FilledSlots(slots) == CountSeq(slots, LAMBDA slot : slot.player.id # 0)

MaxOf(S) == With(S, LAMBDA values : CHOOSE x \in values : \A y \in values : x >= y)
MinOf(S) == With(S, LAMBDA values : CHOOSE x \in values : \A y \in values : x <= y)

-----------------------------------------------------------------------------
(* Sub-scores (utils/bidding/biddingScores, utils/strategy/strategyUtils)  *)

\* the part of calculateRosterFitScore before its final Math.min(25, score)
RosterFitRaw(player, slots, rosterAnalysis) ==
    With(getRosterNeeds(slots), LAMBDA needs :
    LET emptySlots == EmptySlots(slots)
        filledSlots == FilledSlots(slots)
        positions == player.positions
        impact == player.categoryStrengths
        early == IF filledSlots <= 2 THEN 12 + (IF player.tier <= 3 THEN 3 ELSE 0) ELSE 0
        hasPositionalNeed == \E k \in 1..Len(positions) : needs[positions[k]] > 0
        maxNeed == MaxOf({needs[positions[k]] : k \in 1..Len(positions)})
        positional ==
            IF hasPositionalNeed THEN Min2(10, maxNeed * 3)
            ELSE IF needs.any > 0 THEN 3 ELSE 0
        CategoryPoints(cat) ==
            LET strength == rosterAnalysis.categoryNeeds[cat]
                playerImpact == impact[cat]
            IN  IF strength = "weak" /\ GtTenths(playerImpact, 5) THEN 2
                ELSE IF strength = "weak" /\ playerImpact > 0 THEN 1
                ELSE IF strength = "strong" /\ LtTenths(playerImpact, -5) THEN -1
                ELSE 0
        categoryScore == SumSeq([k \in 1..Len(Cats) |-> CategoryPoints(Cats[k])])
        totalPositiveImpact ==
            SumSeq([k \in 1..Len(Cats) |-> IF impact[Cats[k]] > 0 THEN impact[Cats[k]] ELSE 0])
        category ==
            IF filledSlots >= 3 THEN Max2(0, Min2(10, categoryScore))
            \* Math.floor(totalPositiveImpact * 2), the impact counted in quarters
            ELSE Min2(8, (totalPositiveImpact * 2) \div 4)
        multiPositional == IF Len(positions) > 1 THEN 2 ELSE 0
        urgency ==
            IF emptySlots <= 3 /\ hasPositionalNeed THEN 3
            ELSE IF emptySlots <= 6 /\ hasPositionalNeed THEN 1
            ELSE 0
    IN  IF filledSlots = 0
        THEN 15 + (IF player.tier <= 2 THEN 5 ELSE 0) + (IF Len(positions) > 1 THEN 3 ELSE 0)
        ELSE early + positional + category + multiPositional + urgency)

\* variant of calculateRosterFitScore without the final Math.min(25, score)
calculateRosterFitScoreUncapped(player, slots, rosterAnalysis) ==
    RosterFitRaw(player, slots, rosterAnalysis)

calculateRosterFitScore(player, slots, rosterAnalysis) ==
    Min2(25, RosterFitRaw(player, slots, rosterAnalysis))

\* pool is playersRemaining, a sequence of player ids
calculateRemainingPlayersScore(player, pool) ==
    LET totalPlayersInPool == Len(pool)
        isEarlyDraft == totalPlayersInPool > 150
        tierScarcity == CountSeq(pool, LAMBDA p : Player(p).tier = player.tier)
        earlyScore ==
            LET tierPoints ==
                    IF player.tier = 1 THEN 10
                    ELSE IF player.tier = 2 THEN 8
                    ELSE IF player.tier = 3 THEN 6
                    ELSE IF player.tier = 4 THEN 4
                    ELSE 2
                scarcity ==
                    IF player.tier <= 2 /\ tierScarcity <= 10 THEN 5
                    ELSE IF player.tier <= 3 /\ tierScarcity <= 15 THEN 3
                    ELSE IF tierScarcity <= 20 THEN 1
                    ELSE 0
                sameTierBetterPlayers ==
                    CountSeq(pool, LAMBDA p : Player(p).tier = player.tier
                                              /\ Player(p).projectedValue > player.projectedValue)
                quality ==
                    IF sameTierBetterPlayers = 0 THEN 5
                    ELSE IF sameTierBetterPlayers <= 2 THEN 3
                    ELSE IF sameTierBetterPlayers <= 5 THEN 1
                    ELSE 0
            IN  tierPoints + scarcity + quality
        lateScore ==
            LET Similar(pos) ==
                    CountSeq(pool, LAMBDA p : Includes(Player(p).positions, pos)
                                              /\ Player(p).tier <= player.tier + 1)
                minScarcity == MinOf({Similar(player.positions[k]) : k \in 1..Len(player.positions)})
                positional ==
                    IF minScarcity <= 2 THEN 10
                    ELSE IF minScarcity <= 4 THEN 7
                    ELSE IF minScarcity <= 8 THEN 4
                    ELSE IF minScarcity <= 15 THEN 2
                    ELSE 0
                tierPoints ==
                    IF tierScarcity <= 3 THEN 5
                    ELSE IF tierScarcity <= 6 THEN 3
                    ELSE IF tierScarcity <= 10 THEN 1
                    ELSE 0
                betterAlternatives ==
                    CountSeq(pool, LAMBDA p :
                        /\ Player(p).projectedValue > player.projectedValue
                        /\ \E k \in 1..Len(Player(p).positions) :
                               Includes(player.positions, Player(p).positions[k]))
                dropOff ==
                    IF betterAlternatives = 0 THEN 5
                    ELSE IF betterAlternatives <= 2 THEN 3
                    ELSE IF betterAlternatives <= 5 THEN 1
                    ELSE 0
            IN  positional + tierPoints + dropOff
    IN  Min2(20, IF isEarlyDraft THEN earlyScore ELSE lateScore)

-----------------------------------------------------------------------------
(* Competitive interest (utils/analysis/competitiveAnalysis)               *)

\* every position of every owned player, in the order the two forEach loops visit them
RECURSIVE OwnedPositions(_)
OwnedPositions(playersOwned) ==
    IF playersOwned = <<>> THEN <<>>
    ELSE With(Tail(playersOwned), LAMBDA others :
             Player(playersOwned[1].id).positions \o OwnedPositions(others))

RECURSIVE ReduceNeeds(_, _)
ReduceNeeds(needs, positions) ==
    IF positions = <<>> THEN needs
    ELSE LET position == positions[1]
         IN  With(IF needs[position] > 0 THEN [needs EXCEPT ![position] = @ - 1]
                  ELSE IF needs.any > 0 THEN [needs EXCEPT !.any = @ - 1]
                  ELSE needs,
                  LAMBDA reduced :
             With(Tail(positions), LAMBDA others : ReduceNeeds(reduced, others)))

calculateTeamPositionNeeds(team) ==
    With(OwnedPositions(team.playersOwned), LAMBDA positions :
        ReduceNeeds(team.positionNeeds, positions))

\* projected values v (1..100) for which the double v * 0.8 is above the real 0.8 v
Times08RoundsUp ==
    {3, 6, 7, 12, 14, 17, 19, 23, 24, 28, 29, 33, 34, 38, 39, 41, 46, 48, 51, 53, 56, 58,
     61, 63, 66, 68, 71, 73, 76, 78, 82, 87, 92, 96, 97}

\* team.remainingBudget / team.slotsRemaining >= value * 0.8, for slotsRemaining > 0
BudgetPerSlotReaches08(remainingBudget, slotsRemaining, value) ==
    \/ 10 * remainingBudget > 8 * value * slotsRemaining
    \/ 10 * remainingBudget = 8 * value * slotsRemaining /\ value \notin Times08RoundsUp

\* avgBudgetPerSlot is kept as the fraction num / den the source divides; den = 0 gives
\* Infinity (num > 0), -Infinity (num < 0) or NaN (num = 0) as the quotient
analyzeCompetitiveInterest(player, allTeams) ==
    With(SelectSeq(allTeams, LAMBDA team : ~team.isMyTeam), LAMBDA otherTeams :
    LET Interested(team) ==
            LET budgetReaches ==
                    IF team.slotsRemaining > 0
                    THEN BudgetPerSlotReaches08(team.remainingBudget, team.slotsRemaining,
                                                player.projectedValue)
                    ELSE 0 >= 8 * player.projectedValue
                hasPositionalNeed ==
                    With(calculateTeamPositionNeeds(team), LAMBDA needs :
                        \E k \in 1..Len(player.positions) :
                            needs[player.positions[k]] > 0 \/ needs.any > 0)
            IN  budgetReaches /\ hasPositionalNeed
        totalBudget == SumSeq([k \in 1..Len(otherTeams) |-> otherTeams[k].remainingBudget])
        totalSlots == SumSeq([k \in 1..Len(otherTeams) |-> otherTeams[k].slotsRemaining])
    IN  [interestedTeams |-> CountSeq(otherTeams, Interested),
         avgBudgetPerSlot |-> IF Len(otherTeams) > 0
                              THEN [num |-> totalBudget, den |-> totalSlots]
                              ELSE [num |-> 0, den |-> 1],
         maxCompetitorBudget |->
             MaxOf({0} \cup {otherTeams[k].remainingBudget : k \in 1..Len(otherTeams)})])

\* f > 0 for the quotient f.num / f.den as a double
FracPositive(f) ==
    \/ f.den > 0 /\ f.num > 0
    \/ f.den < 0 /\ f.num < 0
    \/ f.den = 0 /\ f.num > 0

\* (myBudget / myDen) / f > k / 10 for a positive quotient f; Infinity as f gives 0
AdvantageAbove(myBudget, myDen, f, k) ==
    IF f.den = 0 THEN FALSE
    ELSE IF f.den > 0 THEN 10 * myBudget * f.den > k * f.num * myDen
    ELSE 10 * myBudget * (0 - f.den) > k * (0 - f.num) * myDen

\* the real quotient sits exactly on the threshold, where the rounding of the two
\* double divisions decides the comparison
AdvantageOnThreshold(myBudget, myDen, f, k) ==
    f.den # 0 /\ 10 * myBudget * f.den = k * f.num * myDen

-----------------------------------------------------------------------------

\* projected values v for which the double v * 0.7 is below the integer 0.7 v
Times07RoundsDown == {90, 170, 180}

\* nextBid <= value * 0.7
LeqTimes07(nextBid, value) ==
    IF value \in Times07RoundsDown THEN 10 * nextBid < 7 * value ELSE 10 * nextBid <= 7 * value

\* the part of calculateBudgetScore before its final Math.min(20, score);
\* draftState.otherTeamsBudgets is never set, the legacy branch is not taken
BudgetScoreRaw(player, currentBid, roster, slots, allTeams) ==
    With(analyzeCompetitiveInterest(player, allTeams), LAMBDA competitiveAnalysis :
    LET myBudget == roster.remainingBudget
        emptySlots == EmptySlots(slots)
        perSlots == Max2(1, emptySlots)
        budgetAfterBid == myBudget - (currentBid + 1)
        health ==
            IF budgetAfterBid > 15 * perSlots THEN 8
            ELSE IF budgetAfterBid > 10 * perSlots THEN 6
            ELSE IF budgetAfterBid > 5 * perSlots THEN 4
            ELSE IF budgetAfterBid > 2 * perSlots THEN 2
            ELSE 0
        nextBid == currentBid + 1
        value == player.projectedValue
        affordability ==
            IF LeqTimes07(nextBid, value) THEN 7
            ELSE IF 10 * nextBid <= 8 * value THEN 5
            ELSE IF 10 * nextBid <= 9 * value THEN 3
            ELSE IF nextBid <= value THEN 1
            ELSE 0
        competition ==
            IF competitiveAnalysis.interestedTeams = 0 THEN 5
            ELSE IF competitiveAnalysis.interestedTeams <= 2 THEN 3
            ELSE IF competitiveAnalysis.interestedTeams <= 4 THEN 1
            ELSE 0
        advantage ==
            IF FracPositive(competitiveAnalysis.avgBudgetPerSlot)
            THEN IF AdvantageAbove(myBudget, perSlots, competitiveAnalysis.avgBudgetPerSlot, 15) THEN 2
                 ELSE IF AdvantageAbove(myBudget, perSlots, competitiveAnalysis.avgBudgetPerSlot, 12) THEN 1
                 ELSE 0
            ELSE 0
    IN  health + affordability
        + (IF Len(allTeams) > 0 THEN competition + advantage ELSE 0))

calculateBudgetScore(player, currentBid, roster, slots, allTeams) ==
    Min2(20, BudgetScoreRaw(player, currentBid, roster, slots, allTeams))

\* efficiency = projectedValue / nextBid compared with k / 100
EffGeq(value, nextBid, k) == 100 * value >= k * nextBid
EffGt(value, nextBid, k) == 100 * value > k * nextBid

calculateValueEfficiencyScore(player, currentBid, draftPhase) ==
    LET nextBid == currentBid + 1
        v == player.projectedValue
        base ==
            IF EffGeq(v, nextBid, 150) THEN 12
            ELSE IF EffGeq(v, nextBid, 130) THEN 10
            ELSE IF EffGeq(v, nextBid, 115) THEN 8
            ELSE IF EffGeq(v, nextBid, 100) THEN 6
            ELSE IF EffGeq(v, nextBid, 90) THEN 4
            ELSE IF EffGeq(v, nextBid, 80) THEN 2
            ELSE 0
        tierAdjustment ==
            IF player.tier = 1 /\ EffGt(v, nextBid, 100) THEN 4
            ELSE IF player.tier = 2 /\ EffGt(v, nextBid, 110) THEN 3
            ELSE IF player.tier <= 3 /\ EffGt(v, nextBid, 120) THEN 2
            ELSE IF EffGt(v, nextBid, 130) THEN 1
            ELSE 0
        opportunity ==
            IF player.tier <= 2 /\ EffGt(v, nextBid, 100) THEN 4
            ELSE IF player.tier <= 3 /\ EffGt(v, nextBid, 115) THEN 3
            ELSE IF draftPhase = "late" /\ EffGt(v, nextBid, 120) THEN 4
            ELSE IF EffGt(v, nextBid, 125) THEN 2
            ELSE 0
    IN  Min2(20, base + tierAdjustment + opportunity)

-----------------------------------------------------------------------------
(* Strategy fit (utils/strategy/strategyUtils)                             *)

\* A strategy fit is a double in [0, 1].  It is kept as its number of tenths, with
\* `accumulated' set when the double is the sum 0.5 + 0.1 + ... of the balanced branch
\* and lies one ulp below the tenth (0.7999999999999999, 0.8999999999999999,
\* 0.9999999999999999).
calculateStrategyFit(player, strategy, rosterAnalysis) ==
    LET impact == player.categoryStrengths
        needs == rosterAnalysis.categoryNeeds
        Literal(n) == [tenths |-> n, accumulated |-> FALSE]
        Step(cat) ==
            (IF needs[cat] = "weak" /\ GtTenths(impact[cat], 5) THEN 1 ELSE 0)
            - (IF needs[cat] = "strong" /\ LtTenths(impact[cat], -5) THEN 1 ELSE 0)
        balanceScore == 5 + SumSeq([k \in 1..Len(Cats) |-> Step(Cats[k])])
    IN  CASE strategy = "stars_scrubs" ->
                IF player.tier <= 2 THEN Literal(9)
                ELSE IF player.projectedValue <= 5 THEN Literal(7) ELSE Literal(3)
          [] strategy = "balanced" ->
                IF balanceScore >= 11 THEN Literal(10)
                ELSE IF balanceScore >= 8 THEN [tenths |-> balanceScore, accumulated |-> TRUE]
                ELSE Literal(Max2(0, balanceScore))
          [] strategy = "punt_ft" ->
                IF LtTenths(impact.ft_pct, -5) THEN Literal(8)
                ELSE IF GtTenths(impact.ft_pct, 5) THEN Literal(2) ELSE Literal(6)
          [] strategy = "punt_fg" ->
                IF LtTenths(impact.fg_pct, -5) THEN Literal(8)
                ELSE IF GtTenths(impact.fg_pct, 5) THEN Literal(2) ELSE Literal(6)
          [] strategy = "punt_to" ->
                IF GtTenths(impact.turnovers, 5) THEN Literal(9)
                ELSE IF LtTenths(impact.turnovers, -5) THEN Literal(3) ELSE Literal(6)
          [] strategy = "punt_assists" ->
                IF LtTenths(impact.assists, -5) THEN Literal(8)
                ELSE IF GtTenths(impact.assists, 10) THEN Literal(2) ELSE Literal(6)
          [] OTHER -> Literal(5)

\* Math.floor(strategyFit * 10): 0.7999999999999999 * 10 and 0.9999999999999999 * 10
\* stay below 8 and 10, 0.8999999999999999 * 10 rounds to 9
FloorTimes10(fit) ==
    IF fit.accumulated /\ fit.tenths \in {8, 10} THEN fit.tenths - 1 ELSE fit.tenths

\* Math.floor(strategyFit * 7)
FloorTimes7(fit) ==
    IF fit.accumulated /\ fit.tenths = 10 THEN 6 ELSE (7 * fit.tenths) \div 10

\* the part of calculatePuntStrategyScore before its final Math.min(15, score)
PuntStrategyRaw(player, slots, selectedStrategy, rosterAnalysis) ==
    With(calculateStrategyFit(player, selectedStrategy, rosterAnalysis), LAMBDA strategyFit :
    With(SelectSeq(Cats, LAMBDA cat : rosterAnalysis.categoryNeeds[cat] = "weak"),
         LAMBDA weakCategories :
    LET filledSlots == FilledSlots(slots)
        playerImpact == player.categoryStrengths
        positiveCategories == Cardinality({k \in 1..Len(Cats) : playerImpact[Cats[k]] > 0})
        rounded ==
            IF positiveCategories >= 5 THEN 5
            ELSE IF positiveCategories >= 3 THEN 3
            ELSE IF positiveCategories >= 2 THEN 1
            ELSE 0
        puntScore ==
            SumSeq([k \in 1..Len(weakCategories) |->
                        IF LtTenths(playerImpact[weakCategories[k]], -3) THEN 2
                        ELSE IF GtTenths(playerImpact[weakCategories[k]], 5) THEN -1
                        ELSE 0])
        autoPunt == IF Len(weakCategories) >= 2 THEN Max2(0, Min2(8, puntScore)) ELSE 0
    IN  IF filledSlots <= 3
        THEN FloorTimes10(strategyFit) + rounded
        ELSE autoPunt + FloorTimes7(strategyFit)))

calculatePuntStrategyScore(player, slots, selectedStrategy, rosterAnalysis) ==
    Min2(15, PuntStrategyRaw(player, slots, selectedStrategy, rosterAnalysis))

-----------------------------------------------------------------------------
(* The granular bidding score (utils/bidding/biddingLogic)                 *)

\* variant of analyzeNominationTiming in which the average is 0 when nothing has been
\* drafted
analyzeNominationTimingFromZero(player, draftPhase, playersDrafted) ==
    LET n == Len(playersDrafted)
        sum == SumSeq([k \in 1..n |-> Player(playersDrafted[k].id).tier])
    IN  [isEarlyOpportunity |-> 2 * player.tier * Max2(1, n) < 2 * sum - Max2(1, n)]

\* isEarlyOpportunity of analyzeNominationTiming: player.tier < avgDraftedTier - 0.5,
\* the average being 3 when nothing has been drafted
analyzeNominationTiming(player, draftPhase, playersDrafted) ==
    LET n == Len(playersDrafted)
        sum == SumSeq([k \in 1..n |-> Player(playersDrafted[k].id).tier])
    IN  [isEarlyOpportunity |->
            IF n > 0 THEN 2 * player.tier * n < 2 * sum - n
            ELSE 2 * player.tier < 5]

\* ds is the snapshot, slots the slot array its roster references
calculateGranularBiddingScore(player, currentBid, ds, slots) ==
    With([rosterFit |-> calculateRosterFitScore(player, slots, ds.rosterAnalysis),
          remainingPlayersValue |-> calculateRemainingPlayersScore(player, ds.playersRemaining),
          budgetSituation |->
              calculateBudgetScore(player, currentBid, ds.myRoster, slots, ds.allTeams),
          valueEfficiency |-> calculateValueEfficiencyScore(player, currentBid, ds.draftPhase),
          puntStrategy |->
              calculatePuntStrategyScore(player, slots, ds.selectedStrategy, ds.rosterAnalysis)],
         LAMBDA breakdown :
    LET timingAnalysis == analyzeNominationTiming(player, ds.draftPhase, ds.playersDrafted)
        totalScore == breakdown.rosterFit + breakdown.remainingPlayersValue
                      + breakdown.budgetSituation + breakdown.valueEfficiency
                      + breakdown.puntStrategy
                      + (IF timingAnalysis.isEarlyOpportunity THEN 5 ELSE 0)
    IN  [score |-> Min2(100, totalScore), breakdown |-> breakdown])

-----------------------------------------------------------------------------
(* Competition analysis (utils/analysis/advancedCompetitionAnalysis)       *)

\* averageOverbid of analyzeBiddingPatterns, as the sum and the count it divides
analyzeBiddingPatterns(team) ==
    LET teamPlayers == team.playersOwned
    IN  [overbidSum |-> SumSeq([k \in 1..Len(teamPlayers) |->
                            teamPlayers[k].actualCost - Player(teamPlayers[k].id).projectedValue]),
         count |-> Len(teamPlayers)]

\* variant of analyzeBudgetPressure whose 'moderate' test reads the average the wrong
\* way round (avgBudgetPerSlot > 15)
analyzeBudgetPressureModerateAbove(team) ==
    LET slots == team.slotsRemaining
        budget == team.remainingBudget
        AvgBelow(k) == IF slots > 0 THEN budget < k * slots ELSE 0 < k
        AvgAbove(k) == IF slots > 0 THEN budget > k * slots ELSE 0 > k
        ProgressAbove(t) == 10 * (13 - slots) > 13 * t
        ProgressBelow(t) == 10 * (13 - slots) < 13 * t
        pressureLevel ==
            IF AvgBelow(5) /\ slots > 3 THEN "desperate"
            ELSE IF AvgBelow(10) /\ slots > 2 THEN "high"
            ELSE IF AvgAbove(15) \/ ProgressAbove(7) THEN "moderate"
            ELSE "comfortable"
        needsStarPlayer ==
            /\ CountSeq(team.playersOwned, LAMBDA p : Player(p.id).tier <= 2) = 0
            /\ ProgressBelow(5)
        runningOutOfTime == slots <= 3 /\ ProgressAbove(8)
    IN  [pressureLevel |-> pressureLevel,
         likelyToOverbid |-> \/ pressureLevel = "desperate"
                             \/ pressureLevel = "high" /\ (needsStarPlayer \/ runningOutOfTime)]

analyzeBudgetPressure(team) ==
    LET slots == team.slotsRemaining
        budget == team.remainingBudget
        \* avgBudgetPerSlot < k, the average being 0 when no slot remains
        AvgBelow(k) == IF slots > 0 THEN budget < k * slots ELSE 0 < k
        \* draftProgress = (13 - slotsRemaining) / 13 against tenths
        ProgressAbove(t) == 10 * (13 - slots) > 13 * t
        ProgressBelow(t) == 10 * (13 - slots) < 13 * t
        pressureLevel ==
            IF AvgBelow(5) /\ slots > 3 THEN "desperate"
            ELSE IF AvgBelow(10) /\ slots > 2 THEN "high"
            ELSE IF AvgBelow(15) \/ ProgressAbove(7) THEN "moderate"
            ELSE "comfortable"
        needsStarPlayer ==
            /\ CountSeq(team.playersOwned, LAMBDA p : Player(p.id).tier <= 2) = 0
            /\ ProgressBelow(5)
        runningOutOfTime == slots <= 3 /\ ProgressAbove(8)
    IN  [pressureLevel |-> pressureLevel,
         likelyToOverbid |-> \/ pressureLevel = "desperate"
                             \/ pressureLevel = "high" /\ (needsStarPlayer \/ runningOutOfTime)]

\* Math.round of the fraction num / den, den > 0: halves go up
RoundFrac(num, den) == (2 * num + den) \div (2 * den)

\* One entry of threateningTeams.  bidProbability is kept in twentieths (0.95 = 19);
\* baseBid * overbidMultiplier * pressureMultiplier is kept as the fraction
\* likelyNum / likelyDen.
ThreatOf(player, team) ==
    With(analyzeBiddingPatterns(team), LAMBDA patterns :
    With(analyzeBudgetPressure(team), LAMBDA pressure :
    LET value == player.projectedValue
        hasPositionalNeed ==
            \/ \E k \in 1..Len(player.positions) : team.positionNeeds[player.positions[k]] > 0
            \/ team.positionNeeds.any > 0
        categoryFit ==
            Cardinality({k \in 1..Len(Cats) :
                /\ LtTenths(team.categoryStrengths[Cats[k]], -5)
                /\ GtTenths(player.categoryStrengths[Cats[k]], 5)})
        fitTenths == 5 + (IF hasPositionalNeed THEN 2 ELSE 0) + Min2(categoryFit, 3)
        canAfford ==
            IF team.slotsRemaining > 0
            THEN 10 * team.remainingBudget >= 7 * value * team.slotsRemaining
            ELSE 0 >= 7 * value
        strategicFit == IF canAfford THEN fitTenths ELSE Min2(fitTenths, 3)
        probabilityTenths ==
            strategicFit + (IF pressure.likelyToOverbid THEN 2 ELSE 0)
                         + (IF team.slotsRemaining <= 5 THEN 1 ELSE 0)
        bidProbability == Min2(2 * probabilityTenths, 19)
        pressureTenths ==
            IF pressure.pressureLevel = "desperate" THEN 12
            ELSE IF pressure.pressureLevel = "high" THEN 11
            ELSE 10
        n == Max2(1, patterns.count)
        likelyNum == (n * value + patterns.overbidSum) * pressureTenths
        likelyDen == 10 * n
        capped == likelyNum > team.remainingBudget * likelyDen
        num == IF capped THEN team.remainingBudget * likelyDen ELSE likelyNum
        threatLevel ==
            IF bidProbability > 16 /\ 10 * num > 11 * value * likelyDen THEN "critical"
            ELSE IF bidProbability > 12 /\ num > value * likelyDen THEN "high"
            ELSE IF bidProbability > 8 THEN "medium"
            ELSE "low"
    IN  [teamName |-> team.teamName,
         threatLevel |-> threatLevel,
         maxLikelyBid |-> RoundFrac(num, likelyDen),
         bidProbability |-> bidProbability,
         \* the double arithmetic of the source may round differently from the reals here
         onRoundingBoundary |->
             /\ patterns.overbidSum # 0
             /\ \/ (2 * num) % likelyDen = 0 /\ num % likelyDen # 0
                \/ 10 * num = 11 * value * likelyDen
                \/ num = value * likelyDen
                \/ likelyNum = team.remainingBudget * likelyDen]))

\* competitionIntensity is kept as the fraction count / teams the source divides
generateThreatAssessment(player, allTeams) ==
    With(SelectSeq(allTeams, LAMBDA team : ~team.isMyTeam), LAMBDA otherTeams :
    With(Array([k \in 1..Len(otherTeams) |-> ThreatOf(player, otherTeams[k])]),
         LAMBDA threateningTeams :
    With(SelectSeq(threateningTeams, LAMBDA t : t.threatLevel \in {"critical", "high"}),
         LAMBDA highThreatTeams :
    LET expectedFinalCost ==
            IF Len(highThreatTeams) > 0
            THEN MaxOf({highThreatTeams[k].maxLikelyBid : k \in 1..Len(highThreatTeams)})
            ELSE player.projectedValue
    IN  [threateningTeams |-> threateningTeams,
         expectedFinalCost |-> expectedFinalCost,
         competitionIntensity |->
             [count |-> CountSeq(threateningTeams, LAMBDA t : t.bidProbability > 10),
              teams |-> Len(otherTeams)]])))

\* variant of generateAdvancedCompetitionAnalysis that recommends 5% below the expected
\* final cost instead of 5% above
generateAdvancedCompetitionAnalysisBelowCost(player, ds) ==
    With(generateThreatAssessment(player, ds.allTeams), LAMBDA threatAssessment :
    LET intensity == threatAssessment.competitionIntensity
        hundredths == Min2(95 * threatAssessment.expectedFinalCost, 110 * player.projectedValue)
    IN  [threatAssessment |-> threatAssessment,
         strategicRecommendations |->
             [maxRecommendedBid |-> RoundFrac(hundredths, 100),
              confidenceLevel |-> [num |-> intensity.teams - intensity.count,
                                   den |-> intensity.teams]]])

\* maxRecommendedBid = Math.round(Math.min(expectedFinalCost * 1.05, value * 1.1));
\* confidenceLevel = 1 - competitionIntensity, as the fraction num / den
generateAdvancedCompetitionAnalysis(player, ds) ==
    With(generateThreatAssessment(player, ds.allTeams), LAMBDA threatAssessment :
    LET intensity == threatAssessment.competitionIntensity
        hundredths == Min2(105 * threatAssessment.expectedFinalCost, 110 * player.projectedValue)
    IN  [threatAssessment |-> threatAssessment,
         strategicRecommendations |->
             [maxRecommendedBid |-> RoundFrac(hundredths, 100),
              confidenceLevel |-> [num |-> intensity.teams - intensity.count,
                                   den |-> intensity.teams]]])

-----------------------------------------------------------------------------
(* Opponent strategy detection (utils/analysis/advancedCompetitionAnalysis) *)

Unknown(team) ==
    [teamName |-> team.teamName, detectedStrategy |-> "unknown", confidenceThirds |-> 0,
     categoryFocus |-> <<>>, positionFocus |-> <<>>]

StrategyOrder == <<"stars_scrubs", "balanced", "punt_ft", "punt_fg", "punt_to", "punt_assists">>

\* strategyScores of detectOpponentStrategy; actualCost > avgSpent * 1.5 and
\* actualCost < avgSpent * 0.7 are compared as fractions
StrategyScores(team) ==
    With(team.playersOwned, LAMBDA teamPlayers :
    LET n == Len(teamPlayers)
        expensivePlayers == CountSeq(teamPlayers, LAMBDA p : 10 * p.actualCost * n > 15 * team.totalSpent)
        cheapPlayers == CountSeq(teamPlayers, LAMBDA p : 10 * p.actualCost * n < 7 * team.totalSpent)
        weakCategories == SelectSeq(Cats, LAMBDA cat : LtTenths(team.categoryStrengths[cat], -5))
        strongCategories == SelectSeq(Cats, LAMBDA cat : GtTenths(team.categoryStrengths[cat], 5))
        Weak(cat) == cat \in Range(weakCategories) /\ Len(weakCategories) <= 2
    IN  [stars_scrubs |-> IF expensivePlayers >= 2 /\ cheapPlayers >= 2 THEN 3 ELSE 0,
         balanced |-> IF Len(weakCategories) <= 1 /\ Len(strongCategories) >= 3 THEN 2 ELSE 0,
         punt_ft |-> IF Weak("ft_pct") THEN 2 ELSE 0,
         punt_fg |-> IF Weak("fg_pct") THEN 2 ELSE 0,
         punt_to |-> IF Weak("turnovers") THEN 2 ELSE 0,
         punt_assists |-> IF Weak("assists") THEN 2 ELSE 0])

\* detectOpponentStrategy after its early return.  confidence = Math.min(maxScore / 3, 1)
\* is kept in thirds.
StrategyFromPicks(team) ==
    With(team.playersOwned, LAMBDA teamPlayers :
    With(StrategyScores(team), LAMBDA strategyScores :
    LET n == Len(teamPlayers)
        strongCategories == SelectSeq(Cats, LAMBDA cat : GtTenths(team.categoryStrengths[cat], 5))
        maxScore == MaxOf({strategyScores[StrategyOrder[k]] : k \in 1..Len(StrategyOrder)})
        PositionCount(pos) ==
            CountSeq(teamPlayers, LAMBDA p : pos \in Range(Player(p.id).positions))
    IN  [teamName |-> team.teamName,
         detectedStrategy |->
             IF maxScore > 0
             THEN StrategyOrder[CHOOSE k \in 1..Len(StrategyOrder) :
                                    /\ strategyScores[StrategyOrder[k]] = maxScore
                                    /\ \A j \in 1..(k - 1) : strategyScores[StrategyOrder[j]] # maxScore]
             ELSE "unknown",
         confidenceThirds |-> Min2(maxScore, 3),
         categoryFocus |-> strongCategories,
         positionFocus |-> SelectSeq(<<"PG", "SG", "SF", "PF", "C">>,
                                     LAMBDA pos : 10 * PositionCount(pos) > 4 * n)]))

\* variant of detectOpponentStrategy that infers a strategy from a single pick
detectOpponentStrategyFromOnePick(team) ==
    IF Len(team.playersOwned) < 1 THEN Unknown(team) ELSE StrategyFromPicks(team)

detectOpponentStrategy(team) ==
    IF Len(team.playersOwned) < 2 THEN Unknown(team) ELSE StrategyFromPicks(team)

-----------------------------------------------------------------------------
(* The bidding recommendation (utils/bidding/biddingLogic)                 *)

\* Math.floor(baseValue * percent / 100) as the doubles compute it: the products by
\* 1.1, 1.05, 0.95, 0.9 and 0.8 floor to the exact quotient, the product by 0.7 is
\* below the integer for the values of Times07RoundsDown
FloorPercent(baseValue, percent) ==
    IF percent = 70 /\ baseValue \in Times07RoundsDown
    THEN (baseValue * percent) \div 100 - 1
    ELSE (baseValue * percent) \div 100

ZeroBreakdown ==
    [rosterFit |-> 0, remainingPlayersValue |-> 0, budgetSituation |-> 0,
     valueEfficiency |-> 0, puntStrategy |-> 0]

\* variant of the reserve that keeps nothing back for the slots still to fill
minBudgetNeededNoReserve(emptySlots) == 0

minBudgetNeeded(emptySlots) == Max2(1, emptySlots - 1)

\* variant of the affordability check with a strict comparison
CannotAffordStrict(currentBid, actualMaxAffordable) == currentBid > actualMaxAffordable

\* the affordability check
CannotAfford(currentBid, actualMaxAffordable) == currentBid >= actualMaxAffordable

\* variant of the bands in which the two top bands are merged at 105%
MaxBidForScoreCappedAt105(biddingScore, baseValue, actualMaxAffordable) ==
    IF biddingScore >= 75 THEN Min2(FloorPercent(baseValue, 105), actualMaxAffordable)
    ELSE IF biddingScore >= 65 THEN Min2(baseValue, actualMaxAffordable)
    ELSE IF biddingScore >= 55 THEN Min2(FloorPercent(baseValue, 95), actualMaxAffordable)
    ELSE IF biddingScore >= 45 THEN Min2(FloorPercent(baseValue, 90), actualMaxAffordable)
    ELSE IF biddingScore >= 35 THEN Min2(FloorPercent(baseValue, 80), actualMaxAffordable)
    ELSE Min2(FloorPercent(baseValue, 70), actualMaxAffordable)

\* the max bid chosen from the granular score, before the competition analysis
MaxBidForScore(biddingScore, baseValue, actualMaxAffordable) ==
    IF biddingScore >= 85 THEN Min2(FloorPercent(baseValue, 110), actualMaxAffordable)
    ELSE IF biddingScore >= 75 THEN Min2(FloorPercent(baseValue, 105), actualMaxAffordable)
    ELSE IF biddingScore >= 65 THEN Min2(baseValue, actualMaxAffordable)
    ELSE IF biddingScore >= 55 THEN Min2(FloorPercent(baseValue, 95), actualMaxAffordable)
    ELSE IF biddingScore >= 45 THEN Min2(FloorPercent(baseValue, 90), actualMaxAffordable)
    ELSE IF biddingScore >= 35 THEN Min2(FloorPercent(baseValue, 80), actualMaxAffordable)
    ELSE Min2(FloorPercent(baseValue, 70), actualMaxAffordable)

\* variant of shouldBid that accepts every score
ShouldBidAnyScore(maxBid, currentBid, biddingScore) == maxBid > currentBid

ShouldBid(maxBid, currentBid, biddingScore) == maxBid > currentBid /\ biddingScore >= 45

\* the confidence the score gives
ScoreConfidence(biddingScore) ==
    IF biddingScore >= 75 THEN "high"
    ELSE IF biddingScore < 55 THEN "low"
    ELSE "medium"

\* the two updates of confidence after the competition analysis, one after the other;
\* competitionConfidence is the fraction num / den
ConfidenceAfterCompetition(confidence, competitionConfidence) ==
    LET downgraded ==
            IF 10 * competitionConfidence.num < 3 * competitionConfidence.den
               /\ confidence = "high"
            THEN "medium" ELSE confidence
    IN  IF 10 * competitionConfidence.num < competitionConfidence.den /\ downgraded = "medium"
        THEN "low" ELSE downgraded

\* ds is the snapshot, slots the slot array its roster references; stepTwoMaxBid is the
\* local maxBid before the competition analysis lowers it (-1 where it is not computed)
getBiddingRecommendation(player, currentBid, ds, slots) ==
    With(ds.myRoster.remainingBudget - minBudgetNeeded(EmptySlots(slots)),
         LAMBDA actualMaxAffordable :
    IF CannotAfford(currentBid, actualMaxAffordable)
    THEN [shouldBid |-> FALSE, maxBid |-> 0, confidence |-> "high",
          strategyFit |-> [tenths |-> 0, accumulated |-> FALSE],
          biddingScore |-> 0, scoreBreakdown |-> ZeroBreakdown, stepTwoMaxBid |-> -1]
    ELSE
    With(calculateGranularBiddingScore(player, currentBid, ds, slots), LAMBDA granularResult :
    With(generateAdvancedCompetitionAnalysis(player, ds).strategicRecommendations,
         LAMBDA recommendations :
    LET biddingScore == granularResult.score
        baseValue == player.projectedValue
        maxBid == MaxBidForScore(biddingScore, baseValue, actualMaxAffordable)
        shouldBid == ShouldBid(maxBid, currentBid, biddingScore)
        competitionAdjustedMaxBid == Min2(maxBid, recommendations.maxRecommendedBid)
        confidence == ConfidenceAfterCompetition(ScoreConfidence(biddingScore),
                                                 recommendations.confidenceLevel)
    IN  [shouldBid |-> shouldBid, maxBid |-> Max2(0, competitionAdjustedMaxBid),
         confidence |-> confidence,
         strategyFit |-> calculateStrategyFit(player, ds.selectedStrategy, ds.rosterAnalysis),
         biddingScore |-> biddingScore, scoreBreakdown |-> granularResult.breakdown,
         stepTwoMaxBid |-> maxBid])))

\* getPositionalScarcity; pool is playersRemaining, a sequence of player ids
getPositionalScarcity(position, pool, tier) ==
    CountSeq(pool, LAMBDA p : Includes(Player(p).positions, position) /\ Player(p).tier <= tier)

\* candidates.sort(...).slice(0, m) for a comparator that orders by ascending Key: the
\* sort is stable, candidates of equal key keep their order
TopOf(candidates, Key(_), m) ==
    With(Array([i \in 1..Len(candidates) |-> Key(candidates[i])]), LAMBDA keys :
    LET Rank(i) ==
            Cardinality({j \in 1..Len(candidates) :
                            keys[j] < keys[i] \/ (keys[j] = keys[i] /\ j < i)})
    IN  [r \in 1..Min2(m, Len(candidates)) |->
            candidates[CHOOSE i \in 1..Len(candidates) : Rank(i) = r - 1]])

\* The result as the sequence of [player, strategy].  The comparator of the target
\* candidates, ascending scarcity then descending projected value, is the ascending
\* order of scarcity * 1000 - projectedValue.
getNominationRecommendations(ds, slots, count) ==
    With(getRosterNeeds(slots), LAMBDA needs :
    With(ds.playersRemaining, LAMBDA playersRemaining :
    LET budget == ds.myRoster.remainingBudget
        NeedsPosition(p) ==
            \E k \in 1..Len(Player(p).positions) : needs[Player(p).positions[k]] > 0
        Scarcity(p) ==
            MinOf({getPositionalScarcity(Player(p).positions[k], playersRemaining, Player(p).tier) :
                      k \in 1..Len(Player(p).positions)})
        targetCandidates ==
            TopOf(SelectSeq(playersRemaining, LAMBDA p :
                      /\ Player(p).projectedValue <= budget - 10
                      /\ (NeedsPosition(p) \/ needs.any > 0)),
                  LAMBDA p : Scarcity(p) * 1000 - Player(p).projectedValue,
                  (count + 1) \div 2)
        forceSpendCandidates ==
            IF ds.draftPhase # "late"
            THEN TopOf(SelectSeq(playersRemaining, LAMBDA p :
                           \/ Player(p).projectedValue > budget - 5
                           \/ (~NeedsPosition(p) /\ needs.any <= 2 /\ Player(p).tier <= 2)),
                       LAMBDA p : 0 - Player(p).projectedValue,
                       count \div 2)
            ELSE <<>>
        recommendations ==
            [k \in 1..Len(targetCandidates) |-> [player |-> targetCandidates[k], strategy |-> "target"]]
            \o [k \in 1..Len(forceSpendCandidates) |->
                   [player |-> forceSpendCandidates[k], strategy |-> "force_spend"]]
    IN  SubSeq(recommendations, 1, Min2(count, Len(recommendations)))))

\* biddingRec === null
NoRec == [shouldBid |-> FALSE, maxBid |-> -1, confidence |-> "none",
          strategyFit |-> [tenths |-> 0, accumulated |-> FALSE],
          biddingScore |-> -1, scoreBreakdown |-> ZeroBreakdown, stepTwoMaxBid |-> -1]

\* the "update recommendations" effect of the hook, on the rendered state w
RecommendationEffect(w) ==
    IF w.currentNomination.player # 0
    THEN getBiddingRecommendation(Player(w.currentNomination.player),
                                  w.currentNomination.currentBid,
                                  w.draftState, Slots(w.heap, w.draftState.myRoster))
    ELSE NoRec

-----------------------------------------------------------------------------
(* Sessions                                                                *)

\* the state useState is given on a first visit, for a catalog of n players
FreshState(n) ==
    [draftState |->
        [totalBudget |-> TotalBudget,
         playersRemaining |-> samplePlayers(n),
         playersDrafted |-> <<>>,
         myRoster |-> initializeRoster,
         draftPhase |-> "early",
         totalTeams |-> TotalTeams,
         selectedStrategy |-> "balanced",
         rosterAnalysis |-> generateRosterAnalysis(initialSlots, "balanced"),
         allTeams |-> initializeAllTeams(teamNames, 200)],
     heap |-> [ref \in {SlotsRef} |-> initialSlots],
     currentNomination |-> NoNomination]

-----------------------------------------------------------------------------
(* Inputs of a session                                                     *)

\* A session opens with a number of scripted picks and goes on with arbitrary calls.
\* Sessions gives the catalog sizes and the lengths of the opening.
Sessions ==
    {[catalog |-> 160, opening |-> 0], [catalog |-> 30, opening |-> 6],
     [catalog |-> 30, opening |-> 20]}

\* the catalog players nominated after the opening
Candidates == {1, 2, 3}

StartingBids == {1, 58, 188}
FinalBids == {25, 201}
Winners == {"Eyal", "Ben"}
Nominators == {"Shay"}

-----------------------------------------------------------------------------
(* The state machine                                                       *)

NoPre == [kind |-> "other"]

World == [draftState |-> draftState, heap |-> heap, currentNomination |-> currentNomination]

\* The state after a handler returned w and the effects ran.  The recommendation
\* effect has [currentNomination, draftState] as dependencies: it runs again when the
\* handler set one of them, and biddingRec stays when the handler returned early.
Settle(w) ==
    /\ draftState' = w.draftState
    /\ heap' = w.heap
    /\ currentNomination' = w.currentNomination
    /\ biddingRec' = IF w = World THEN biddingRec ELSE RecommendationEffect(w)
    /\ UNCHANGED <<evaluated, render>>

TeamNamed(allTeams, name) == allTeams[CHOOSE i \in 1..Len(allTeams) : allTeams[i].teamName = name]

InOpening == sessionCalls.opening < sessionCalls.planned

\* The k-th pick of the opening nominates role player 4 + k at $1.  The operator buys
\* it at the recommended maxBid three picks out of four when the recommendation says
\* to bid, and another team buys it at its projected value otherwise.
OpeningNominee == 4 + sessionCalls.opening + 1

OpeningBid ==
    LET k == sessionCalls.opening + 1
    IN  IF k % 4 # 0 /\ biddingRec.shouldBid /\ biddingRec.maxBid >= 1
        THEN [finalBid |-> biddingRec.maxBid, draftedBy |-> "Eyal"]
        ELSE [finalBid |-> Player(currentNomination.player).projectedValue,
              draftedBy |-> teamNames[(k % 9) + 2]]

Nominations ==
    IF InOpening
    THEN {[playerId |-> OpeningNominee, startingBid |-> 1, nominatedBy |-> "Shay"]}
    ELSE [playerId : Candidates, startingBid : StartingBids, nominatedBy : Nominators]

Bids ==
    IF ~InOpening THEN [finalBid : FinalBids, draftedBy : Winners]
    ELSE IF currentNomination.player # 0 THEN {OpeningBid}
    ELSE {}

\* no function has been evaluated on its own
NoEvaluation == [function |-> "none"]

\* the hook as constructed for a session
HookStarts(session) ==
    \E w \in {Rendered(FreshState(session.catalog))} :
        /\ draftState = w.draftState
        /\ heap = w.heap
        /\ currentNomination = w.currentNomination
        /\ biddingRec = RecommendationEffect(w)
        /\ preCall = NoPre
        /\ compliant = TRUE
        /\ sessionCalls = [planned |-> session.opening, opening |-> 0, drafts |-> 0,
                           undos |-> 0]

\* the number of DraftState references; a reference is reused once no closure holds it
SnapshotRefs == 3

\* the hook as mounted: draftState is the object given to useState, no effect has run
Mounted == [snapshot |-> 0, seen |-> -1, seenNomination |-> NoNomination, event |-> "mount"]

Init ==
    /\ \E session \in Sessions : HookStarts(session)
    /\ evaluated = NoEvaluation
    /\ render = Mounted

\* NominationModal.handleSubmit: the modal lists playersRemaining
NominatePlayer(playerId, startingBid, nominatedBy) ==
    /\ InPool(draftState, playerId)
    /\ \E w \in {Rendered(handleNominatePlayer(World, playerId, startingBid, nominatedBy))} : Settle(w)
    /\ preCall' = NoPre
    /\ UNCHANGED <<compliant, sessionCalls>>

\* BiddingSection.handleSubmit: the form is shown for the current nomination and its
\* finalBid input has min = currentBid and no max
SubmitFinalBid(finalBid, draftedBy) ==
    /\ currentNomination.player # 0
    /\ finalBid >= currentNomination.currentBid
    /\ InOpening \/ sessionCalls.drafts < MaxPicks
    /\ \E w \in {Rendered(handleDraftPlayer(World, currentNomination.player, finalBid, draftedBy))} : Settle(w)
    /\ preCall' = [kind |-> "draft",
                   playerId |-> currentNomination.player,
                   draftedBy |-> draftedBy,
                   myRoster |-> draftState.myRoster,
                   slots |-> Slots(heap, draftState.myRoster),
                   team |-> TeamNamed(draftState.allTeams, draftedBy)]
    /\ compliant' = (compliant /\ (draftedBy = "Eyal" =>
                                      biddingRec.shouldBid /\ finalBid <= biddingRec.maxBid))
    /\ sessionCalls' = IF InOpening THEN [sessionCalls EXCEPT !.opening = @ + 1]
                       ELSE [sessionCalls EXCEPT !.drafts = @ + 1]

\* handleDraftPlayer called for a player that is not in playersRemaining
DraftUnavailablePlayer(playerId, finalBid, draftedBy) ==
    /\ ~InOpening
    /\ ~InPool(draftState, playerId)
    /\ \E w \in {Rendered(handleDraftPlayer(World, playerId, finalBid, draftedBy))} : Settle(w)
    /\ preCall' = [kind |-> "rejected"]
    /\ UNCHANGED <<compliant, sessionCalls>>

UndoLastPick ==
    /\ ~InOpening
    /\ sessionCalls.undos < MaxUndos
    /\ \E w \in {Rendered(handleUndoLastPick(World))} : Settle(w)
    /\ preCall' = IF preCall.kind = "draft" THEN [preCall EXCEPT !.kind = "undone"] ELSE NoPre
    /\ sessionCalls' = [sessionCalls EXCEPT !.undos = @ + 1]
    /\ UNCHANGED compliant

StrategyChange(newStrategy) ==
    /\ ~InOpening
    /\ \E w \in {Rendered(handleStrategyChange(World, newStrategy))} : Settle(w)
    /\ preCall' = NoPre
    /\ UNCHANGED <<compliant, sessionCalls>>

Next ==
    \/ \E n \in Nominations : NominatePlayer(n.playerId, n.startingBid, n.nominatedBy)
    \/ \E b \in Bids : SubmitFinalBid(b.finalBid, b.draftedBy)
    \/ \E playerId \in Candidates \cup {0}, finalBid \in FinalBids, draftedBy \in Winners :
           DraftUnavailablePlayer(playerId, finalBid, draftedBy)
    \/ UndoLastPick
    \/ \E newStrategy \in Strategies : StrategyChange(newStrategy)

Spec == Init /\ [][Next]_vars

-----------------------------------------------------------------------------
(* analyzeBudgetPressure evaluated on its own                              *)

\* the team after it won the given picks, one updateTeamAfterDraft per pick
RECURSIVE TeamAfterPicks(_, _)
TeamAfterPicks(team, picks) ==
    IF picks = <<>> THEN team
    ELSE With(updateTeamAfterDraft(team, picks[1]), LAMBDA updated :
         With(Tail(picks), LAMBDA others : TeamAfterPicks(updated, others)))

\* the team after it won n role players at $1 each
TeamWithPicks(team, n) ==
    TeamAfterPicks(team,
                   [k \in 1..n |-> [id |-> 4 + k, draftedBy |-> team.teamName, actualCost |-> 1,
                                    draftOrder |-> k]])

\* numbers of picks of the teams evaluated: slotsRemaining from 13 down to -1
PressurePicks == 0..14

\* remaining budgets evaluated: every multiple of 5 and the dollar below it, which are
\* the values at which avgBudgetPerSlot crosses 5, 10 and 15
PressureBudgets == {b \in -5..TotalBudget : b % 5 \in {0, 4}}

PressureInit ==
    /\ HookStarts([catalog |-> 30, opening |-> 0])
    /\ evaluated = NoEvaluation
    /\ render = Mounted

\* analyzeBudgetPressure applied to two teams that differ only in remainingBudget
EvaluatePressure(team, lower, higher) ==
    /\ lower < higher
    /\ evaluated' =
           [function |-> "analyzeBudgetPressure",
            team |-> team,
            lower |-> lower,
            higher |-> higher,
            lowerLevel |-> analyzeBudgetPressure([team EXCEPT !.remainingBudget = lower]).pressureLevel,
            higherLevel |-> analyzeBudgetPressure([team EXCEPT !.remainingBudget = higher]).pressureLevel]
    /\ UNCHANGED <<hookVars, render>>

\* one evaluation per run
PressureNext ==
    /\ evaluated = NoEvaluation
    /\ \E n \in PressurePicks, lower \in PressureBudgets, higher \in PressureBudgets :
           EvaluatePressure(TeamWithPicks(draftState.allTeams[2], n), lower, higher)

PressureSpec == PressureInit /\ [][PressureNext]_vars

-----------------------------------------------------------------------------
(* A draft in which the competitors open with cheap picks                  *)

\* the picks of the opening in which the competitors buy: six by each competitor
CheapPicks == 54

\* the picks of the opening in which the operator buys
OperatorPicks == 14

\* who takes the next pick of the opening: the competitors in turn, or the operator
CheapBuyer ==
    IF sessionCalls.planned = OperatorPicks THEN "Eyal"
    ELSE teamNames[(sessionCalls.opening % 9) + 2]

CheapOpeningInit ==
    /\ \E session \in {[catalog |-> 160, opening |-> CheapPicks],
                        [catalog |-> 30, opening |-> OperatorPicks]} : HookStarts(session)
    /\ evaluated = NoEvaluation
    /\ render = Mounted

\* The k-th pick of the opening nominates role player 4 + k at $1 and the buyer takes
\* it at that price; the calls after the opening are free, with the starting bids of a
\* session and $63, which lies between 1.05 and 1.10 of the value of player 1.
CheapOpeningNext ==
    \/ /\ InOpening
       /\ currentNomination.player = 0
       /\ NominatePlayer(OpeningNominee, 1, "Shay")
    \/ /\ InOpening
       /\ currentNomination.player # 0
       /\ SubmitFinalBid(1, CheapBuyer)
    \/ /\ ~InOpening
       /\ \E playerId \in Candidates \cup {4}, startingBid \in StartingBids \cup {63} :
              NominatePlayer(playerId, startingBid, "Shay")
    \/ \E newStrategy \in Strategies : StrategyChange(newStrategy)

CheapOpeningSpec == CheapOpeningInit /\ [][CheapOpeningNext]_vars

-----------------------------------------------------------------------------
(* getBiddingRecommendation evaluated at the start of a draft              *)

\* the tier-1 players projected at $60
ScenarioPlayers == {161, 162}

\* the other tier-1 players, all of them projected above $60
Stars == [k \in 1..21 |-> 162 + k]

\* Pools that hold the nominated player: the player alone, the player among 160 others
\* of which one is of its tier, the player among 21 better players of its tier and
\* position, and the three together (below and above the 150 players of the early
\* draft).
ScenarioPools(playerId) ==
    {<<playerId>>,
     samplePlayers(160) \o <<playerId>>,
     Stars \o <<playerId>>,
     samplePlayers(160) \o Stars \o <<playerId>>}

\* category-impact vectors, in quarters: without a positive category, with one, and with
\* up to five; ft_pct, fg_pct, turnovers and assists on each side of the thresholds of
\* the punt strategies
ScenarioImpacts ==
    {Impact(p, 0, a, 0, 0, fg, ft, 0, to) :
        p \in {0, 3}, a \in {-4, 0, 3, 5}, fg \in {-4, 0, 3}, ft \in {-4, 0, 3},
        to \in {-4, 0, 3}}

ScenarioBid == 10

ScenarioInit ==
    /\ \E playerId \in ScenarioPlayers : \E pool \in ScenarioPools(playerId) :
           \E w \in {Rendered([FreshState(1) EXCEPT !.draftState.playersRemaining = pool])} :
               /\ draftState = w.draftState
               /\ heap = w.heap
               /\ currentNomination = w.currentNomination
               /\ biddingRec = RecommendationEffect(w)
    /\ preCall = NoPre
    /\ compliant = TRUE
    /\ sessionCalls = [planned |-> 0, opening |-> 0, drafts |-> 0, undos |-> 0]
    /\ evaluated = NoEvaluation
    /\ render = Mounted

\* getBiddingRecommendation(player, ScenarioBid, draftState) for a player of the pool
EvaluateRecommendation(player) ==
    /\ evaluated' =
           [function |-> "getBiddingRecommendation",
            player |-> player,
            currentBid |-> ScenarioBid,
            result |-> getBiddingRecommendation(player, ScenarioBid, draftState,
                                                Slots(heap, draftState.myRoster))]
    /\ UNCHANGED <<hookVars, render>>

\* the operator selects a strategy, then the recommendation is evaluated once
ScenarioNext ==
    /\ evaluated = NoEvaluation
    /\ \/ \E newStrategy \in Strategies : StrategyChange(newStrategy)
       \/ \E playerId \in ScenarioPlayers \cap Range(draftState.playersRemaining),
             impact \in ScenarioImpacts :
              EvaluateRecommendation([Player(playerId) EXCEPT !.categoryStrengths = impact])

ScenarioSpec == ScenarioInit /\ [][ScenarioNext]_vars

-----------------------------------------------------------------------------
(* The ratios of the competition analysis evaluated on their own           *)

\* calculateBudgetScore, legacy branch: the per-slot budgets of the competitors that
\* have a slot left, and the length their sum is divided by
LegacyAvgCompetitorBudget(otherTeamsBudgets) ==
    With(SelectSeq(otherTeamsBudgets, LAMBDA team : team.slotsRemaining > 0), LAMBDA kept :
        [competitorsBudgets |-> [k \in 1..Len(kept) |->
                                    [num |-> kept[k].remainingBudget,
                                     den |-> Max2(1, kept[k].slotsRemaining)]],
         length |-> Len(kept)])

\* the TeamBudgetInfo of a team
BudgetInfo(team) ==
    [teamName |-> team.teamName, remainingBudget |-> team.remainingBudget,
     playersOwned |-> Len(team.playersOwned), slotsRemaining |-> team.slotsRemaining]

\* numbers of picks of a competitor: from an empty to a full roster
RatioPicks == 0..13

\* allTeams after competitors 2..5 won early picks each and competitors 6..10 late picks each
TeamsWithPicks(allTeams, early, late) ==
    [i \in 1..Len(allTeams) |->
        IF allTeams[i].isMyTeam THEN allTeams[i]
        ELSE TeamWithPicks(allTeams[i], IF i <= 5 THEN early ELSE late)]

RatioInit ==
    /\ HookStarts([catalog |-> 30, opening |-> 0])
    /\ evaluated = NoEvaluation
    /\ render = Mounted

\* the three ratios for a nominated player and the teams of a DraftState
EvaluateRatios(playerId, allTeams, picks) ==
    /\ evaluated' =
           [function |-> "ratios",
            player |-> playerId,
            picks |-> picks,
            competitionIntensity |->
                generateThreatAssessment(Player(playerId), allTeams).competitionIntensity,
            avgBudgetPerSlot |->
                analyzeCompetitiveInterest(Player(playerId), allTeams).avgBudgetPerSlot,
            avgCompetitorBudget |->
                LegacyAvgCompetitorBudget(
                    With(SelectSeq(allTeams, LAMBDA team : ~team.isMyTeam), LAMBDA otherTeams :
                        [k \in 1..Len(otherTeams) |-> BudgetInfo(otherTeams[k])]))]
    /\ UNCHANGED <<hookVars, render>>

\* one evaluation per run
RatioNext ==
    /\ evaluated = NoEvaluation
    /\ \E playerId \in Candidates, early \in RatioPicks, late \in RatioPicks :
           \E allTeams \in {TeamsWithPicks(draftState.allTeams, early, late)} :
               EvaluateRatios(playerId, allTeams, <<early, late>>)

RatioSpec == RatioInit /\ [][RatioNext]_vars

-----------------------------------------------------------------------------
(* The hook render by render: a handler call replaces state, then React    *)
(* renders and runs the effects whose dependencies changed                 *)

\* a state object was replaced since the effects last ran: React renders again and runs
\* the effects that depend on it
Scheduled == render.snapshot # render.seen \/ currentNomination # render.seenNomination

\* the reference of the object the next setDraftState creates
NewSnapshot == (render.snapshot + 1) % SnapshotRefs

\* the effects of the last handler call have run
EffectsRan == render.event = "none"

\* The state after a handler returned w and before the next render: the setters it
\* called replaced the state objects, the derived fields are as the handler left them.
Replace(w, event, setsDraftState) ==
    /\ draftState' = w.draftState
    /\ heap' = w.heap
    /\ currentNomination' = w.currentNomination
    /\ render' = [render EXCEPT !.snapshot = IF setsDraftState THEN NewSnapshot ELSE @,
                                !.event = event]
    /\ UNCHANGED <<biddingRec, evaluated, preCall, compliant>>

NominatePlayerCall(playerId, startingBid, nominatedBy) ==
    /\ EffectsRan
    /\ InPool(draftState, playerId)
    /\ \E w \in {handleNominatePlayer(World, playerId, startingBid, nominatedBy)} :
           Replace(w, "nominate", FALSE)
    /\ UNCHANGED sessionCalls

SubmitFinalBidCall(finalBid, draftedBy) ==
    /\ EffectsRan
    /\ currentNomination.player # 0
    /\ finalBid >= currentNomination.currentBid
    /\ sessionCalls.drafts < MaxPicks
    /\ \E w \in {handleDraftPlayer(World, currentNomination.player, finalBid, draftedBy)} :
           Replace(w, "draft", TRUE)
    /\ sessionCalls' = [sessionCalls EXCEPT !.drafts = @ + 1]

UndoLastPickCall ==
    /\ EffectsRan
    /\ sessionCalls.undos < MaxUndos
    /\ \E w \in {handleUndoLastPick(World)} :
           Replace(w, "undo", Len(draftState.playersDrafted) > 0)
    /\ sessionCalls' = [sessionCalls EXCEPT !.undos = @ + 1]

StrategyChangeCall(newStrategy) ==
    /\ EffectsRan
    /\ \E w \in {handleStrategyChange(World, newStrategy)} : Replace(w, "strategy", TRUE)
    /\ UNCHANGED sessionCalls

\* One render and its effects.  The recommendation effect depends on [currentNomination,
\* draftState]; the nomination-recommendations effect and the derived-field effect
\* depend on [draftState].  The derived-field effect calls setDraftState with a new
\* object: prev => ({ ...prev, draftPhase, rosterAnalysis, budgetAllocation }).
RunEffects ==
    /\ Scheduled
    /\ LET draftStateChanged == render.snapshot # render.seen
       IN  /\ biddingRec' = RecommendationEffect(World)
           /\ evaluated' =
                  IF currentNomination.player # 0 \/ draftStateChanged
                  THEN [function |-> IF currentNomination.player # 0
                                     THEN "getBiddingRecommendation"
                                     ELSE "getNominationRecommendations",
                        draftState |-> draftState,
                        heap |-> heap,
                        after |-> render.event]
                  ELSE evaluated
           /\ draftState' = IF draftStateChanged THEN WithDerived(draftState, heap)
                            ELSE draftState
           /\ render' = [snapshot |-> IF draftStateChanged THEN NewSnapshot
                                      ELSE render.snapshot,
                         seen |-> render.snapshot,
                         seenNomination |-> currentNomination,
                         event |-> "none"]
    /\ UNCHANGED <<heap, currentNomination, preCall, compliant, sessionCalls>>

RenderInit ==
    /\ HookStarts([catalog |-> 30, opening |-> 0])
    /\ evaluated = NoEvaluation
    /\ render = Mounted

\* the calls made render by render: nominations at $1, picks at $25, two strategies
RenderStrategies == {"balanced", "punt_ft"}

RenderNext ==
    \/ \E playerId \in Candidates, nominatedBy \in Nominators :
           NominatePlayerCall(playerId, 1, nominatedBy)
    \/ \E draftedBy \in Winners : SubmitFinalBidCall(25, draftedBy)
    \/ UndoLastPickCall
    \/ \E newStrategy \in RenderStrategies : StrategyChangeCall(newStrategy)
    \/ RunEffects

\* React runs the effects of every render it committed
RenderSpec == RenderInit /\ [][RenderNext]_vars /\ WF_vars(RunEffects)

-----------------------------------------------------------------------------
(* Finalize-draft events handled before the next render                    *)

\* the finalize-draft events handled in a session
BatchPicks == 2

\* handleDraftPlayer as the render of the DraftState rendered created it, called while
\* the pending state is w.  player, draftOrder, updatedTeams and updatedRoster are
\* computed from the closure's draftState; the updater prev => ({ ...prev, ... }) takes
\* playersRemaining and playersDrafted from the pending state.  The slot array is
\* shared by all snapshots, so the slots are read as earlier handlers left them.
handleDraftPlayerOfRender(rendered, w, playerId, finalBid, draftedBy) ==
    IF findPlayer(rendered, playerId) = 0 THEN w
    ELSE
    LET player == Player(playerId)
        prev == w.draftState
        draftedPlayer == [id |-> playerId, draftedBy |-> draftedBy, actualCost |-> finalBid,
                          draftOrder |-> Len(rendered.playersDrafted) + 1]
        updatedTeams == Array([i \in 1..Len(rendered.allTeams) |->
                            IF rendered.allTeams[i].teamName = draftedBy
                            THEN updateTeamAfterDraft(rendered.allTeams[i], draftedPlayer)
                            ELSE rendered.allTeams[i]])
        remaining == SelectSeq(prev.playersRemaining, LAMBDA p : p # playerId)
        drafted == Append(prev.playersDrafted, draftedPlayer)
    IN  IF draftedBy = "Eyal"
        THEN
            LET slots == Slots(w.heap, rendered.myRoster)
                availableSlot == FindAvailableSlot(slots, player)
                updatedRoster ==
                    IF availableSlot # 0 THEN SpendOnRoster(rendered.myRoster, finalBid)
                    ELSE rendered.myRoster
            IN  [draftState |-> [prev EXCEPT !.playersRemaining = remaining,
                                             !.playersDrafted = drafted,
                                             !.myRoster = updatedRoster,
                                             !.allTeams = updatedTeams],
                 heap |-> IF availableSlot # 0
                          THEN [w.heap EXCEPT ![rendered.myRoster.slots] =
                                    PlacePlayer(slots, availableSlot, draftedPlayer)]
                          ELSE w.heap,
                 currentNomination |-> NoNomination]
        ELSE
            [draftState |-> [prev EXCEPT !.playersRemaining = remaining,
                                         !.playersDrafted = drafted,
                                         !.allTeams = updatedTeams],
             heap |-> w.heap,
             currentNomination |-> NoNomination]

\* The render of the state w and its effects.  render holds what the components and
\* the handlers of that render see; pending says that a handler has set state since.
Commit(w) ==
    /\ draftState' = w.draftState
    /\ heap' = w.heap
    /\ currentNomination' = w.currentNomination
    /\ biddingRec' = RecommendationEffect(w)
    /\ render' = [draftState |-> w.draftState, currentNomination |-> w.currentNomination,
                  pending |-> FALSE]

BatchInit ==
    /\ HookStarts([catalog |-> 30, opening |-> 0])
    /\ evaluated = NoEvaluation
    /\ render = [draftState |-> draftState, currentNomination |-> currentNomination,
                 pending |-> FALSE]

\* NominationModal.handleSubmit, followed by the render
NominateAndRender(playerId, startingBid, nominatedBy) ==
    /\ ~render.pending
    /\ InPool(draftState, playerId)
    /\ \E w \in {Rendered(handleNominatePlayer(World, playerId, startingBid, nominatedBy))} :
           Commit(w)
    /\ UNCHANGED <<evaluated, preCall, compliant, sessionCalls>>

\* BiddingSection.handleSubmit of the last render: the form is the one rendered for
\* render.currentNomination and onDraftPlayer is the handler that render created
SubmitBeforeRender(finalBid, draftedBy) ==
    /\ render.currentNomination.player # 0
    /\ finalBid >= render.currentNomination.currentBid
    /\ sessionCalls.drafts < BatchPicks
    /\ \E w \in {handleDraftPlayerOfRender(render.draftState, World,
                       render.currentNomination.player, finalBid, draftedBy)} :
           /\ draftState' = w.draftState
           /\ heap' = w.heap
           /\ currentNomination' = w.currentNomination
    /\ render' = [render EXCEPT !.pending = TRUE]
    /\ sessionCalls' = [sessionCalls EXCEPT !.drafts = @ + 1]
    /\ UNCHANGED <<biddingRec, evaluated, preCall, compliant>>

\* the render of the pending state
Rerender ==
    /\ render.pending
    /\ \E w \in {Rendered(World)} : Commit(w)
    /\ UNCHANGED <<evaluated, preCall, compliant, sessionCalls>>

BatchNext ==
    \/ \E playerId \in Candidates, startingBid \in StartingBids, nominatedBy \in Nominators :
           NominateAndRender(playerId, startingBid, nominatedBy)
    \/ \E finalBid \in FinalBids, draftedBy \in Winners : SubmitBeforeRender(finalBid, draftedBy)
    \/ Rerender

BatchSpec == BatchInit /\ [][BatchNext]_vars

-----------------------------------------------------------------------------
(* Properties                                                              *)

MySlots == Slots(heap, draftState.myRoster)

Nominated == currentNomination.player # 0

\* the affordability bound of the operator in the current state
MaxAffordable == draftState.myRoster.remainingBudget - Max2(1, EmptySlots(MySlots) - 1)

\* C1: when the current bid is at or above remainingBudget - max(1, emptySlots - 1), the
\* recommendation is a value with shouldBid false, maxBid 0, biddingScore 0, the five
\* sub-scores 0 and confidence 'high'.
FailFastWhenUnaffordable ==
    (Nominated /\ currentNomination.currentBid >= MaxAffordable) =>
        /\ biddingRec.shouldBid = FALSE
        /\ biddingRec.maxBid = 0
        /\ biddingRec.biddingScore = 0
        /\ biddingRec.scoreBreakdown.rosterFit = 0
        /\ biddingRec.scoreBreakdown.remainingPlayersValue = 0
        /\ biddingRec.scoreBreakdown.budgetSituation = 0
        /\ biddingRec.scoreBreakdown.valueEfficiency = 0
        /\ biddingRec.scoreBreakdown.puntStrategy = 0
        /\ biddingRec.confidence = "high"

\* a nomination whose bid is exactly the affordability bound, for a player whose granular
\* score is positive: the zeros come from the fail-fast branch
UnaffordableNomination ==
    /\ Nominated
    /\ currentNomination.currentBid = MaxAffordable
    /\ calculateGranularBiddingScore(Player(currentNomination.player),
                                     currentNomination.currentBid,
                                     draftState, MySlots).score > 0

\* C2: as long as every pick the operator won was won while shouldBid was true and at a
\* price no higher than the recommended maxBid, the remaining budget covers $1 for each
\* empty slot.
RosterCompletionGuarantee ==
    compliant => draftState.myRoster.remainingBudget >= EmptySlots(MySlots)

\* the operator followed the recommendations down to the last dollar per empty slot
CompliantAtTheLimit ==
    /\ compliant
    /\ EmptySlots(MySlots) > 0
    /\ FilledSlots(MySlots) > 0
    /\ draftState.myRoster.remainingBudget = EmptySlots(MySlots)

\* C3: remainingBudget + totalSpent of the operator's roster equals totalBudget.
BudgetConservation ==
    draftState.myRoster.remainingBudget + draftState.myRoster.totalSpent = draftState.totalBudget

\* a pick of the operator was undone while earlier picks are still paid for
OperatorPickUndone ==
    /\ preCall.kind = "undone"
    /\ preCall.draftedBy = "Eyal"
    /\ FilledSlots(preCall.slots) > 0
    /\ EmptySlots(preCall.slots) > 0
    /\ draftState.myRoster.totalSpent > 0

\* C4: the operator's remainingBudget is never negative.
RemainingBudgetNeverNegative == draftState.myRoster.remainingBudget >= 0

\* C5: a draft immediately followed by an undo restores the roster's budgets, every slot,
\* the winning team's playersOwned, remainingBudget, totalSpent and slotsRemaining, and
\* puts the player back in playersRemaining and out of playersDrafted.
DraftUndoRoundTrip ==
    preCall.kind = "undone" =>
        LET team == TeamNamed(draftState.allTeams, preCall.draftedBy)
        IN  /\ draftState.myRoster.remainingBudget = preCall.myRoster.remainingBudget
            /\ draftState.myRoster.totalSpent = preCall.myRoster.totalSpent
            /\ MySlots = preCall.slots
            /\ team.playersOwned = preCall.team.playersOwned
            /\ team.remainingBudget = preCall.team.remainingBudget
            /\ team.totalSpent = preCall.team.totalSpent
            /\ team.slotsRemaining = preCall.team.slotsRemaining
            /\ InPool(draftState, preCall.playerId)
            /\ \A k \in 1..Len(draftState.playersDrafted) :
                   draftState.playersDrafted[k].id # preCall.playerId

\* a draft was undone right away, for the operator with an open slot or for another team
RoundTripDone ==
    /\ preCall.kind = "undone"
    /\ \/ preCall.draftedBy = "Eyal" /\ EmptySlots(preCall.slots) = Len(SlotPositions)
       \/ preCall.draftedBy # "Eyal" /\ Len(preCall.team.playersOwned) > 0

\* C6: no step modifies the slot objects of the snapshot that was current before it.
PriorSnapshotSlotsUntouched ==
    [][heap'[draftState.myRoster.slots] = heap[draftState.myRoster.slots]]_vars

\* C7: handleDraftPlayer for an id that is not in playersRemaining changes none of
\* playersRemaining, playersDrafted, MyRoster (slots included), allTeams and the
\* current nomination.
UnavailablePlayerRejected ==
    [][preCall'.kind = "rejected" =>
          /\ draftState'.playersRemaining = draftState.playersRemaining
          /\ draftState'.playersDrafted = draftState.playersDrafted
          /\ draftState'.myRoster = draftState.myRoster
          /\ heap' = heap
          /\ draftState'.allTeams = draftState.allTeams
          /\ currentNomination' = currentNomination]_vars

\* a draft of an unavailable player was attempted after a pick, during a nomination
RejectedDuringNomination ==
    /\ preCall.kind = "rejected"
    /\ Len(draftState.playersDrafted) > 0
    /\ Nominated

\* C8: every team has slotsRemaining = 13 - |playersOwned|.
SlotsRemainingMatchesOwned ==
    \A i \in 1..Len(draftState.allTeams) :
        draftState.allTeams[i].slotsRemaining = 13 - Len(draftState.allTeams[i].playersOwned)

\* some team owns players and a pick has been undone
TeamsOwnPlayersAfterUndo ==
    /\ sessionCalls.undos > 0
    /\ \E i \in 1..Len(draftState.allTeams) : Len(draftState.allTeams[i].playersOwned) >= 2

\* C9: a slot holds one player or none, and no player id is in two slots of the roster.
NoPlayerInTwoSlots ==
    /\ \A i \in 1..Len(MySlots) :
           MySlots[i].player = NoPlayer \/ MySlots[i].player.id \in DOMAIN Catalog
    /\ \A i, j \in 1..Len(MySlots) :
           (i # j /\ MySlots[i].player.id # 0) => MySlots[i].player.id # MySlots[j].player.id

\* the operator holds a multi-position player while slots the player fits are still open
MultiPositionPlayerPlaced ==
    \E i, j \in 1..Len(MySlots) :
        /\ MySlots[i].player.id # 0
        /\ Len(Player(MySlots[i].player.id).positions) > 1
        /\ MySlots[j].player.id = 0
        /\ SlotAccepts(MySlots[j], Player(MySlots[i].player.id))

\* C10: for the nominated player and a bid >= 0 the five sub-scores of
\* calculateGranularBiddingScore are within [0,25], [0,20], [0,20], [0,20], [0,15].
SubScoresWithinCaps ==
    (Nominated /\ currentNomination.currentBid >= 0) =>
        \A breakdown \in {calculateGranularBiddingScore(Player(currentNomination.player),
                                                         currentNomination.currentBid,
                                                         draftState, MySlots).breakdown} :
            /\ breakdown.rosterFit \in 0..25
            /\ breakdown.remainingPlayersValue \in 0..20
            /\ breakdown.budgetSituation \in 0..20
            /\ breakdown.valueEfficiency \in 0..20
            /\ breakdown.puntStrategy \in 0..15

\* a nomination for which the roster-fit components add up to more than the cap
RosterFitCapBinds ==
    /\ Nominated
    /\ RosterFitRaw(Player(currentNomination.player), MySlots, draftState.rosterAnalysis) > 25

\* the timing bonus of the nominated player in the current snapshot
TimingBonus ==
    IF analyzeNominationTiming(Player(currentNomination.player), draftState.draftPhase,
                               draftState.playersDrafted).isEarlyOpportunity
    THEN 5 ELSE 0

\* C11: outside the fail-fast branch the reported biddingScore is the sum of the five
\* sub-scores, plus 5 when the timing bonus applies, also when that sum is above 100.
ReportedScoreIsRawSum ==
    (Nominated /\ currentNomination.currentBid < MaxAffordable) =>
        biddingRec.biddingScore =
            biddingRec.scoreBreakdown.rosterFit
            + biddingRec.scoreBreakdown.remainingPlayersValue
            + biddingRec.scoreBreakdown.budgetSituation
            + biddingRec.scoreBreakdown.valueEfficiency
            + biddingRec.scoreBreakdown.puntStrategy
            + TimingBonus

\* the order comfortable < moderate < high < desperate
Severity(pressureLevel) ==
    CASE pressureLevel = "comfortable" -> 0
      [] pressureLevel = "moderate" -> 1
      [] pressureLevel = "high" -> 2
      [] pressureLevel = "desperate" -> 3

\* C12: of two teams that differ only in remainingBudget, the one with the smaller
\* remainingBudget never has the less severe pressureLevel.
PressureMonotoneInBudget ==
    evaluated.function = "analyzeBudgetPressure" =>
        Severity(evaluated.lowerLevel) >= Severity(evaluated.higherLevel)

\* the smaller budget changed the level of a team with three slots left, where the tests
\* on slotsRemaining rule out 'desperate'
PressureRisesWithThreeSlotsLeft ==
    /\ evaluated.function = "analyzeBudgetPressure"
    /\ evaluated.team.slotsRemaining = 3
    /\ evaluated.lowerLevel = "high"
    /\ evaluated.higherLevel = "moderate"
    /\ evaluated.lower < 15

\* C13: every getBiddingRecommendation and getNominationRecommendations call receives a
\* DraftState whose draftPhase and rosterAnalysis are the ones computed from the
\* playersDrafted, myRoster and selectedStrategy of that same DraftState.
EvaluationsReceiveConsistentSnapshot ==
    evaluated.function \in {"getBiddingRecommendation", "getNominationRecommendations"} =>
        evaluated.draftState = WithDerived(evaluated.draftState, evaluated.heap)

\* C14: once the handler calls have stopped, the recomputation of the derived fields
\* reaches a state in which no render is scheduled: only finitely many snapshot
\* replacements follow the last call.
RecomputationSettles == (<>[][RunEffects]_vars) => <>(~Scheduled)


\* C15: every ratio of the competition analysis divides by a non-zero denominator, so
\* that it is finite and defined: competitionIntensity, avgBudgetPerSlot and the legacy
\* average competitor budget per slot, also when every competitor's roster is full.
RatioDenominatorsGuarded ==
    evaluated.function = "ratios" =>
        /\ evaluated.competitionIntensity.teams # 0
        /\ evaluated.avgBudgetPerSlot.den # 0
        /\ evaluated.avgCompetitorBudget.length # 0


\* the competing teams of the draft
CompetingTeams == {draftState.allTeams[i] : i \in {k \in 1..Len(draftState.allTeams) : ~draftState.allTeams[k].isMyTeam}}

\* C16: for every competing team that owns fewer than 2 players detectOpponentStrategy
\* returns detectedStrategy 'unknown' with confidence 0, whatever the team's budget,
\* spend and category totals.
InsufficientHistoryIsUnknown ==
    \A team \in CompetingTeams :
        Len(team.playersOwned) < 2 =>
            /\ detectOpponentStrategy(team).detectedStrategy = "unknown"
            /\ detectOpponentStrategy(team).confidenceThirds = 0

\* a competing team owns exactly one player, bought above its whole budget, while a
\* player is nominated
OnePickTeamOverBudget ==
    /\ currentNomination.player # 0
    /\ \E team \in CompetingTeams :
           /\ Len(team.playersOwned) = 1
           /\ team.remainingBudget < 0
           /\ team.categoryStrengths # ZeroImpact


\* a player is nominated and getBiddingRecommendation went past its fail-fast branch
ScoredNomination == Nominated /\ currentNomination.currentBid < MaxAffordable


\* a confidence lowered by one step at most: high to medium below 0.3, medium to low
\* below 0.1, for the assessment confidence num / den
OneStepDown(confidence, competitionConfidence) ==
    IF confidence = "high" /\ 10 * competitionConfidence.num < 3 * competitionConfidence.den
    THEN "medium"
    ELSE IF confidence = "medium" /\ 10 * competitionConfidence.num < competitionConfidence.den
    THEN "low"
    ELSE confidence

\* C20: the returned confidence is the score-based confidence lowered by at most one
\* step by the competition analysis; a score-based 'high' is never returned as 'low'.
ConfidenceLoweredByOneStep ==
    ScoredNomination =>
        biddingRec.confidence =
            OneStepDown(ScoreConfidence(biddingRec.biddingScore),
                        generateAdvancedCompetitionAnalysis(
                            Player(currentNomination.player),
                            draftState).strategicRecommendations.confidenceLevel)


\* the multiplier of the projected value for a score, in hundredths: the seven bands
BandPercent(score) ==
    IF score >= 85 THEN 110
    ELSE IF score >= 75 THEN 105
    ELSE IF score >= 65 THEN 100
    ELSE IF score >= 55 THEN 95
    ELSE IF score >= 45 THEN 90
    ELSE IF score >= 35 THEN 80
    ELSE 70

\* floor(projectedValue * m) for the band of the score of the current recommendation
BandShare ==
    (Player(currentNomination.player).projectedValue * BandPercent(biddingRec.biddingScore))
        \div 100

ShouldBidIffCeilingAboveBidAndScore45 ==
    ScoredNomination =>
        (biddingRec.shouldBid <=>
            /\ biddingRec.stepTwoMaxBid > currentNomination.currentBid
            /\ biddingRec.biddingScore >= 45)

\* the ceiling is above the current bid, the score is below 45 and shouldBid is false
CeilingAboveBidScoreBelow45 ==
    /\ ScoredNomination
    /\ biddingRec.stepTwoMaxBid > currentNomination.currentBid
    /\ biddingRec.biddingScore < 45
    /\ ~biddingRec.shouldBid


\* C17: at the start of a draft, for a tier-1 player projected at $60 at a current bid of
\* $10, whatever the selected strategy, the player's category impacts and the pool,
\* getBiddingRecommendation returns rosterFit >= 20, shouldBid true and a maxBid from 60
\* to 66.
ScenarioARecommendation ==
    evaluated.function = "getBiddingRecommendation" =>
        /\ evaluated.result.scoreBreakdown.rosterFit >= 20
        /\ evaluated.result.shouldBid
        /\ evaluated.result.maxBid \in 60..66

\* the recommendation with the lowest score: a one-position player whose only positive
\* category is the one the selected strategy punts, in a pool of better players
ScenarioAtLowestScore ==
    /\ evaluated.function = "getBiddingRecommendation"
    /\ evaluated.result.biddingScore = 65
    /\ evaluated.result.scoreBreakdown.remainingPlayersValue = 0
    /\ evaluated.result.maxBid = 60


\* C21: for a team that owns at least 2 players detectOpponentStrategy returns 'unknown'
\* whenever no archetype has the strictly highest positive score: when every score is 0
\* and when two or more archetypes share the highest score.
TiesResolveToUnknown ==
    \A team \in CompetingTeams :
        Len(team.playersOwned) >= 2 =>
            LET scores == StrategyScores(team)
                best == MaxOf({scores[StrategyOrder[k]] : k \in 1..Len(StrategyOrder)})
                leaders == {k \in 1..Len(StrategyOrder) : scores[StrategyOrder[k]] = best}
            IN  (best = 0 \/ Cardinality(leaders) >= 2) =>
                    detectOpponentStrategy(team).detectedStrategy = "unknown"


\* C22: after any sequence of draft and undo events every team's positionNeeds is the
\* needs map recomputed from the team's current playersOwned: the needs a team starts
\* with, reduced by the positions of the players it owns.
PositionNeedsFollowPlayersOwned ==
    \A i \in 1..Len(draftState.allTeams) :
        LET team == draftState.allTeams[i]
        IN  team.positionNeeds =
                ReduceNeeds([PG |-> 1, SG |-> 1, SF |-> 1, PF |-> 1, C |-> 2,
                             G |-> 1, F |-> 1, UTIL |-> 2, BENCH |-> 3, any |-> 8],
                            OwnedPositions(team.playersOwned))


\* the numbers of recommendations asked for: the default and the hook's
NominationCounts == {3, 12}

\* C23: no player is returned by getNominationRecommendations both with strategy
\* 'target' and with strategy 'force_spend' in the same result list.
NominationPoolsDisjoint ==
    \A count \in NominationCounts :
        LET recs == getNominationRecommendations(draftState, MySlots, count)
        IN  \A i, j \in 1..Len(recs) :
                recs[i].strategy = "target" /\ recs[j].strategy = "force_spend"
                    => recs[i].player # recs[j].player


\* C24: whenever the recommendation says to bid, the maxBid it returns, after the
\* competition adjustment, is above the current bid.
ShouldBidLeavesRoomToBid ==
    (Nominated /\ biddingRec.shouldBid) => biddingRec.maxBid > currentNomination.currentBid

\* the recommendation says to bid and the competition analysis lowered the ceiling
BidWithLoweredCeiling ==
    /\ Nominated
    /\ biddingRec.shouldBid
    /\ biddingRec.maxBid < biddingRec.stepTwoMaxBid


\* C25: getBiddingRecommendation never returns shouldBid = true while the operator's
\* roster has no empty slot, whatever the player, the bid and the budget.
FullRosterNeverBids ==
    (Nominated /\ EmptySlots(MySlots) = 0) => ~biddingRec.shouldBid


\* C26: after any sequence of draft and undo events the operator's roster and the team
\* flagged isMyTeam agree on remainingBudget and on totalSpent.
RosterBudgetMatchesMyTeam ==
    \A i \in 1..Len(draftState.allTeams) :
        draftState.allTeams[i].isMyTeam =>
            /\ draftState.myRoster.remainingBudget = draftState.allTeams[i].remainingBudget
            /\ draftState.myRoster.totalSpent = draftState.allTeams[i].totalSpent


\* C27: no team is credited with more players than the 13 roster slots: every team
\* has slotsRemaining >= 0 and at most 13 players in playersOwned.
TeamsWithinRosterSize ==
    \A i \in 1..Len(draftState.allTeams) :
        /\ draftState.allTeams[i].slotsRemaining >= 0
        /\ Len(draftState.allTeams[i].playersOwned) <= 13


EfficiencyAbove(player, currentBid, t) == 10 * player.projectedValue > t * (currentBid + 1)

EfficiencyBelow(player, currentBid, t) == 10 * player.projectedValue < t * (currentBid + 1)

\* The aggressivenessLevel and shouldWaitForOthers of calculateBiddingTiming: the branch
\* on filledSlots and draftPhase first, then the budget override.
calculateBiddingTiming(player, currentBid, ds, slots) ==
    LET filledSlots == FilledSlots(slots)
        initial == [aggressivenessLevel |-> "moderate", shouldWaitForOthers |-> FALSE]
        byRoster ==
            IF filledSlots <= 2
            THEN IF EfficiencyAbove(player, currentBid, 12)
                 THEN [aggressivenessLevel |-> "moderate", shouldWaitForOthers |-> FALSE]
                 ELSE IF EfficiencyAbove(player, currentBid, 10)
                 THEN [aggressivenessLevel |-> "moderate", shouldWaitForOthers |-> TRUE]
                 ELSE [aggressivenessLevel |-> "passive", shouldWaitForOthers |-> TRUE]
            ELSE IF filledSlots <= 8
            THEN IF player.tier <= 2 /\ EfficiencyAbove(player, currentBid, 9)
                 THEN [aggressivenessLevel |-> "aggressive", shouldWaitForOthers |-> FALSE]
                 ELSE IF EfficiencyAbove(player, currentBid, 11)
                 THEN [aggressivenessLevel |-> "moderate", shouldWaitForOthers |-> FALSE]
                 ELSE initial
            ELSE IF ds.draftPhase = "late" /\ EfficiencyBelow(player, currentBid, 11)
            THEN [aggressivenessLevel |-> "passive", shouldWaitForOthers |-> TRUE]
            ELSE initial
    IN  IF ds.myRoster.remainingBudget > 120 /\ EfficiencyAbove(player, currentBid, 10)
        THEN [byRoster EXCEPT !.aggressivenessLevel = "aggressive"]
        ELSE IF ds.myRoster.remainingBudget < 50
        THEN [aggressivenessLevel |-> "passive", shouldWaitForOthers |-> TRUE]
        ELSE byRoster

\* C29: calculateBiddingTiming never returns aggressivenessLevel 'aggressive' together
\* with shouldWaitForOthers = true.
AggressiveNeverWaits ==
    Nominated =>
        LET biddingTiming == calculateBiddingTiming(Player(currentNomination.player),
                                 currentNomination.currentBid, draftState, MySlots)
        IN  ~(biddingTiming.aggressivenessLevel = "aggressive"
              /\ biddingTiming.shouldWaitForOthers)


\* C30: finalize-draft events handled against the same rendered snapshot leave the
\* state sequential handling would: no player id is twice in playersDrafted, and
\* every pick of playersDrafted is in the winning team's playersOwned and is counted
\* in its remainingBudget and slotsRemaining.
BatchedPicksAreRecorded ==
    /\ \A i, j \in 1..Len(draftState.playersDrafted) :
           i # j => draftState.playersDrafted[i].id # draftState.playersDrafted[j].id
    /\ \A i \in 1..Len(draftState.allTeams) :
           LET team == draftState.allTeams[i]
               picks == SelectSeq(draftState.playersDrafted,
                                  LAMBDA p : p.draftedBy = team.teamName)
           IN  /\ Len(team.playersOwned) = Len(picks)
               /\ \A k \in 1..Len(picks) : team.playersOwned[k].id = picks[k].id
               /\ team.slotsRemaining = 13 - Len(picks)
               /\ team.remainingBudget =
                      TotalBudget - SumSeq([k \in 1..Len(picks) |-> picks[k].actualCost])

=============================================================================
